---------------------------- MODULE Spec2Model ----------------------------
(***************************************************************************)
(* A model of the SermoDigital/jose JWS engine: the header containers,     *)
(* the signing-method registry, JWS construction, signing and caching,     *)
(* the three serialization forms and their parsers, and single and multi   *)
(* signature verification.                                                 *)
(*                                                                         *)
(* Byte strings are modelled by what they encode.  A segment is a record   *)
(*   [enc, c, kv, p]                                                       *)
(* enc: "nil" (a nil slice), "raw" (JSON text), "b64" (base64url of JSON   *)
(* text), "esc" (escaped JSON text), "bad" (bytes that decode to nothing); *)
(* c: what the JSON text is: "obj" (an object, its members in kv), "null", *)
(* "val" (a payload value, named by p), "none".                            *)
(***************************************************************************)
EXTENDS Integers, Sequences, FiniteSets, TLC

(***************************************************************************)
(* Bounds of the model.                                                    *)
(***************************************************************************)
MaxBlocks == 3      \* most signature blocks of a JWS in the verification runs
MaxEntries == 2     \* most signature blocks of a JWS in the lifecycle runs
MaxOps == 3         \* most state-changing calls in one run
NThreads == 2       \* goroutines that use the registry concurrently
IntBits == 5        \* width of the modelled int64 (two's complement)
MaxTime == 6        \* latest ordinary time of a claim or of the clock
MaxOptsCalls == 1   \* most changes a caller makes to one options object

(***************************************************************************)
(* Small input sets.                                                       *)
(***************************************************************************)
Keys == {"K1", "K2"}
Payloads == {"P1", "P2"}
NilStr == "nil"

\* The signing-method objects.  M1 and M2 are registered at start; M3 is a
\* second implementation of M1's algorithm and is not registered.
Methods == {"M1", "M2", "M3"}
Alg(m) == IF m = "M2" THEN "ES256" ELSE "HS256"
Algs == {"HS256", "ES256"}
\* ES256 (ECDSA) signatures are randomized, HS256 (HMAC) ones are not.
Randomized(m) == m = "M2"
Nonces == {0, 1}

\* Header values: strings, and "#1" standing for a JSON value that is not a
\* string (the number 1).
IsString(v) == v \notin {"#1", NilStr}

(***************************************************************************)
(* Segments and their encodings.                                           *)
(***************************************************************************)
NilSeg == [enc |-> "nil", c |-> "none", kv |-> {}, p |-> ""]
BadSeg == [enc |-> "bad", c |-> "none", kv |-> {}, p |-> ""]

\* json.Marshal(map[string]interface{}(h)): a nil map marshals to null.
jsonMarshalMap(h) ==
    IF h.nil THEN [enc |-> "raw", c |-> "null", kv |-> {}, p |-> ""]
    ELSE [enc |-> "raw", c |-> "obj", kv |-> h.kv, p |-> ""]

Base64Encode(s) == [s EXCEPT !.enc = "b64"]
EncodeEscape(s) == [s EXCEPT !.enc = "esc"]

\* DecodeEscaped: the JSON text inside an encoded segment, or an error.
DecodeEscaped(s) ==
    IF s.enc \in {"b64", "esc"} THEN [err |-> NilStr, v |-> [s EXCEPT !.enc = "raw"]]
    ELSE [err |-> "decode", v |-> NilSeg]

(***************************************************************************)
(* jose.Header and jose.Protected: a map, possibly nil, as a set of        *)
(* <<key, value>> pairs with distinct keys.                                *)
(***************************************************************************)
NilHeader == [nil |-> TRUE, kv |-> {}]
EmptyHeader == [nil |-> FALSE, kv |-> {}]
MkHeader(kv) == [nil |-> FALSE, kv |-> kv]

HeaderLen(h) == Cardinality(h.kv)
HeaderHas(h, key) == \E e \in h.kv : e[1] = key
HeaderGet(h, key) ==
    IF h.nil \/ ~HeaderHas(h, key) THEN NilStr
    ELSE (CHOOSE e \in h.kv : e[1] = key)[2]
\* Set on a nil map panics in Go; the callers below test h.nil first.
HeaderSet(h, key, val) ==
    [h EXCEPT !.kv = {e \in h.kv : e[1] # key} \cup {<<key, val>>}]
HeaderDel(h, key) == [h EXCEPT !.kv = {e \in h.kv : e[1] # key}]

\* Header.MarshalJSON / Header.Base64: nothing for a nil or empty header.
HeaderBase64(h) ==
    IF h.nil \/ HeaderLen(h) = 0 THEN NilSeg
    ELSE EncodeEscape(jsonMarshalMap(h))

\* Protected.Base64: base64url of the JSON text, also for an empty header.
ProtectedBase64(p) == Base64Encode(jsonMarshalMap(p))

\* Header.UnmarshalJSON(b) into header h: a nil b changes nothing; the JSON
\* object's members are merged into the map h already holds.
HeaderUnmarshalJSON(h, b) ==
    IF b.enc = "nil" THEN [err |-> NilStr, h |-> h]
    ELSE LET d == DecodeEscaped(b) IN
         IF d.err # NilStr THEN [err |-> d.err, h |-> h]
         ELSE IF d.v.c = "obj"
              THEN [err |-> NilStr,
                    h |-> MkHeader({e \in h.kv : \A f \in d.v.kv : f[1] # e[1]}
                                   \cup d.v.kv)]
         ELSE IF d.v.c = "null" THEN [err |-> NilStr, h |-> NilHeader]
         ELSE [err |-> "decode", h |-> h]

\* Protected.UnmarshalJSON(b): decodes into a fresh Header and drops the
\* decoder's error; the result is what the fresh Header then holds.
ProtectedUnmarshalJSON(b) ==
    [err |-> NilStr, h |-> HeaderUnmarshalJSON(NilHeader, b).h]

(***************************************************************************)
(* The payload and its cache encoding.                                     *)
(***************************************************************************)
PayloadBase64(v) == [enc |-> "b64", c |-> "val", kv |-> {}, p |-> v]

PayloadUnmarshalJSON(b) ==
    IF b.enc \in {"b64", "esc"} /\ b.c = "val" THEN [err |-> NilStr, v |-> b.p]
    ELSE [err |-> "decode", v |-> NilStr]

(***************************************************************************)
(* Signing methods: the capability the engine consumes.  A signature       *)
(* records the algorithm that made it, the signing input, the key and the  *)
(* randomness used; a method's Verify accepts exactly the signatures that  *)
(* its algorithm makes for the same input and key.                         *)
(***************************************************************************)
format(a, b) == <<a, b>>

NoSig == [alg |-> NilStr, in |-> format(NilSeg, NilSeg), key |-> NilStr, n |-> 0]

\* A signature segment that is no base64url, and crypto.Signature's
\* UnmarshalJSON: the signature a segment decodes to, or a decode error.
BadSig == [NoSig EXCEPT !.alg = "bad"]
SignatureUnmarshalJSON(seg) ==
    IF seg = BadSig THEN [err |-> "decode", sig |-> NoSig]
    ELSE [err |-> NilStr, sig |-> seg]

\* A key of a type that no method's Sign accepts.
InvalidKey == "K0"

\* Sign(data, key) of method m: ErrInvalidKey for a key of the wrong type.
MethodSign(m, raw, key, n) ==
    IF key = InvalidKey THEN [err |-> "ErrInvalidKey", sig |-> NoSig]
    ELSE [err |-> NilStr, sig |-> [alg |-> Alg(m), in |-> raw, key |-> key, n |-> n]]

\* Verify(raw, signature, key) of method m.  The key's type is tested
\* first: ErrInvalidKey.  SigningMethodECDSA then slices
\* signature[:m.KeySize], which panics on the nil signature of a block that
\* was never signed; a signature that does not match is the method's
\* verification error.
MethodVerify(m, raw, sig, key) ==
    IF key = InvalidKey THEN "ErrInvalidKey"
    ELSE IF Randomized(m) /\ sig = NoSig THEN "panic"
    ELSE IF sig.alg = Alg(m) /\ sig.in = raw /\ sig.key = key THEN NilStr
    ELSE "crypto"


(***************************************************************************)
(* sigHead: one signature block.  Protected and Unprotected are the cached *)
(* wire segments, protected and unprotected the header maps.               *)
(***************************************************************************)
NilBlock ==
    [Protected |-> NilSeg, Unprotected |-> NilSeg, Signature |-> NoSig,
     protected |-> NilHeader, unprotected |-> NilHeader,
     clean |-> FALSE, method |-> NilStr]

\* jws: the JWS object.  live is FALSE until an object has been made; sbnil
\* tells a nil block slice from an empty one.
NoJWS ==
    [live |-> FALSE, payload |-> NilStr, plcache |-> NilSeg, clean |-> FALSE,
     sb |-> <<>>, sbnil |-> TRUE, isJWT |-> FALSE]

\* New(content, methods...)
New(content, methods) ==
    [live |-> TRUE, payload |-> content, plcache |-> NilSeg, clean |-> FALSE,
     sb |-> [i \in 1..Len(methods) |->
               [NilBlock EXCEPT !.protected = MkHeader({<<"alg", Alg(methods[i])>>}),
                                !.unprotected = EmptyHeader,
                                !.method = methods[i]]],
     sbnil |-> FALSE, isJWT |-> FALSE]

\* (j *JWS) cache: marshals the payload when the payload cache is not clean.
cacheJWS(j) ==
    IF ~j.clean THEN [j EXCEPT !.plcache = PayloadBase64(j.payload), !.clean = TRUE]
    ELSE j

\* A cache that marshals on every call: what the amended C10 rules out.
cacheSigHead_Always(s) ==
    [s EXCEPT !.Protected = ProtectedBase64(s.protected),
              !.Unprotected = HeaderBase64(s.unprotected),
              !.clean = FALSE]

\* (s *sigHead) cache: marshals both headers when the block is not clean.
cacheSigHead(s) ==
    IF ~s.clean
    THEN [s EXCEPT !.Protected = ProtectedBase64(s.protected),
                   !.Unprotected = HeaderBase64(s.unprotected),
                   !.clean = TRUE]
    ELSE s

\* A key-arity test that only refuses an empty key list: what C11 and C12
\* rule out.
BadKeyArity_OnlyEmpty(nkeys, nblocks) == nkeys < 1

\* The key-arity test shared by sign, VerifyMulti and ValidateMulti.
BadKeyArity(nkeys, nblocks) == nkeys < 1 \/ (nkeys > 1 /\ nkeys # nblocks)

\* A single key is used for every block.
SpreadKeys(keys, n) == IF Len(keys) = 1 THEN [i \in 1..n |-> keys[1]] ELSE keys

\* The loop of sign from block i on: cache the headers, sign, store.
\* nsign counts the calls of a method's Sign, nenc the header encodings done.
RECURSIVE signLoop(_, _, _, _, _)
signLoop(j, keys, ns, i, cnt) ==
    IF i > Len(j.sb) THEN [j |-> j, err |-> NilStr, nsign |-> cnt.nsign, nenc |-> cnt.nenc]
    ELSE LET s == cacheSigHead(j.sb[i])
             raw == format(s.Protected, j.plcache)
             r == MethodSign(s.method, raw, keys[i], ns[i])
             c == [nsign |-> cnt.nsign + 1,
                   nenc |-> IF j.sb[i].clean THEN cnt.nenc ELSE cnt.nenc + 1]
         IN IF r.err # NilStr
            THEN [j |-> [j EXCEPT !.sb[i] = s], err |-> r.err,
                  nsign |-> c.nsign, nenc |-> c.nenc]
            ELSE signLoop([j EXCEPT !.sb[i] = [s EXCEPT !.Signature = r.sig]],
                          keys, ns, i + 1, c)

\* (j *JWS) sign(keys...); ns[i] is the randomness block i's method draws.
sign(j, keys, ns) ==
    LET c == cacheJWS(j)
        pe == IF j.clean THEN 0 ELSE 1
    IN IF BadKeyArity(Len(keys), Len(c.sb))
       THEN [j |-> c, err |-> "ErrNotEnoughKeys", nsign |-> 0, nenc |-> pe]
       ELSE signLoop(c, SpreadKeys(keys, Len(c.sb)), ns, 1, [nsign |-> 0, nenc |-> pe])

(***************************************************************************)
(* Serialized documents.  A compact token is np dot-separated segments:    *)
(* inline.Protected, payload and inline.Signature.  A JSON document has a  *)
(* payload member, the inline members protected/header/signature, and a    *)
(* signatures member (hasSigs: present and not null).                      *)
(***************************************************************************)
Entry(s) == [Protected |-> s.Protected, Unprotected |-> s.Unprotected,
             Signature |-> s.Signature]
NilEntry == [Protected |-> NilSeg, Unprotected |-> NilSeg, Signature |-> NoSig]

NoDoc == [form |-> "none", np |-> 0, payload |-> NilSeg, inline |-> NilEntry,
          hasSigs |-> FALSE, sigs |-> <<>>]

\* (j *JWS) Flat(key)
Flat(j, key, ns) ==
    IF Len(j.sb) < 1 THEN [j |-> j, err |-> "ErrNotEnoughMethods", out |-> NoDoc, nsign |-> 0, nenc |-> 0]
    ELSE LET r == sign(j, <<key>>, ns) IN
         IF r.err # NilStr
         THEN [j |-> r.j, err |-> r.err, out |-> NoDoc, nsign |-> r.nsign, nenc |-> r.nenc]
         ELSE [j |-> r.j, err |-> NilStr, nsign |-> r.nsign, nenc |-> r.nenc,
               out |-> [NoDoc EXCEPT !.form = "json",
                                     !.payload = r.j.plcache,
                                     !.inline = Entry(r.j.sb[1])]]

\* (j *JWS) General(keys...)
General(j, keys, ns) ==
    LET r == sign(j, keys, ns) IN
    IF r.err # NilStr
         THEN [j |-> r.j, err |-> r.err, out |-> NoDoc, nsign |-> r.nsign, nenc |-> r.nenc]
    ELSE [j |-> r.j, err |-> NilStr, nsign |-> r.nsign, nenc |-> r.nenc,
          out |-> [NoDoc EXCEPT !.form = "json",
                                !.payload = r.j.plcache,
                                !.hasSigs = ~r.j.sbnil,
                                !.sigs = [i \in 1..Len(r.j.sb) |-> Entry(r.j.sb[i])]]]

\* (j *JWS) Compact(key)
Compact(j, key, ns) ==
    IF Len(j.sb) < 1 THEN [j |-> j, err |-> "ErrNotEnoughMethods", out |-> NoDoc, nsign |-> 0, nenc |-> 0]
    ELSE LET r == sign(j, <<key>>, ns) IN
         IF r.err # NilStr
         THEN [j |-> r.j, err |-> r.err, out |-> NoDoc, nsign |-> r.nsign, nenc |-> r.nenc]
         ELSE [j |-> r.j, err |-> NilStr, nsign |-> r.nsign, nenc |-> r.nenc,
               out |-> [NoDoc EXCEPT !.form = "compact", !.np = 3,
                                     !.payload = r.j.plcache,
                                     !.inline = [Protected |-> r.j.sb[1].Protected,
                                                 Unprotected |-> NilSeg,
                                                 Signature |-> r.j.sb[1].Signature]]]


(***************************************************************************)
(* The signing-method registry: a map from algorithm name to method, and   *)
(* the process-wide duplicate-header toggle.                               *)
(***************************************************************************)
InitialMethods == [a \in Algs |-> IF a = "HS256" THEN "M1" ELSE "M2"]

\* GetSigningMethod(alg) on registry reg: nil for a name the map lacks.
GetSigningMethod(reg, alg) == IF alg \in DOMAIN reg THEN reg[alg] ELSE NilStr

\* An assignMethod that binds whatever the lookup returns: what C7 rules out.
assignMethod_NoLookupTest(reg, s, p) ==
    [err |-> NilStr,
     s |-> [s EXCEPT !.method = GetSigningMethod(reg, HeaderGet(p, "alg"))]]

\* (s *sigHead) assignMethod(p)
assignMethod(reg, s, p) ==
    LET alg == HeaderGet(p, "alg") IN
    IF ~IsString(alg) THEN [err |-> "ErrNoAlgorithm", s |-> s]
    ELSE LET sm == GetSigningMethod(reg, alg) IN
         IF sm = NilStr THEN [err |-> "ErrNoAlgorithm", s |-> s]
         ELSE [err |-> NilStr, s |-> [s EXCEPT !.method = sm]]

\* A checkHeaders that does not consult the toggle: what C6 rules out.
checkHeaders_NoToggle(a, b, ignoreDupes) ==
    IF HeaderLen(a) + HeaderLen(b) = 0 THEN "ErrTwoEmptyHeaders"
    ELSE IF \E e \in a.kv : HeaderHas(b, e[1]) THEN "ErrDuplicateHeaderParameter"
    ELSE NilStr

\* checkHeaders(a, b) under the toggle IgnoreDupes
checkHeaders(a, b, ignoreDupes) ==
    IF HeaderLen(a) + HeaderLen(b) = 0 THEN "ErrTwoEmptyHeaders"
    ELSE IF \E e \in a.kv : HeaderHas(b, e[1]) /\ ~ignoreDupes
         THEN "ErrDuplicateHeaderParameter"
    ELSE NilStr

\* (s *sigHead) unmarshal()
sigHeadUnmarshal(s) ==
    LET p == ProtectedUnmarshalJSON(s.Protected)
        u == HeaderUnmarshalJSON(s.unprotected, s.Unprotected)
    IN IF p.err # NilStr THEN [err |-> p.err, s |-> s]
       ELSE IF u.err # NilStr THEN [err |-> u.err, s |-> [s EXCEPT !.protected = p.h]]
       ELSE [err |-> NilStr, s |-> [s EXCEPT !.protected = p.h, !.unprotected = u.h]]

\* json.Unmarshal of one signature entry into a sigHead
DecodeEntry(e) ==
    [NilBlock EXCEPT !.Protected = e.Protected, !.Unprotected = e.Unprotected,
                     !.Signature = SignatureUnmarshalJSON(e.Signature).sig]

\* json.Unmarshal(encoded, &g) succeeds: the bytes are a JSON document and
\* every signature member in it decodes.
JSONUnmarshals(doc) ==
    /\ doc.form = "json"
    /\ SignatureUnmarshalJSON(doc.inline.Signature).err = NilStr
    /\ \A x \in 1..Len(doc.sigs) : SignatureUnmarshalJSON(doc.sigs[x].Signature).err = NilStr

\* The registry and the toggle as a parse reads them.  parseFlat and
\* parseGeneral test the toggle (checkHeaders) and look a method up
\* (assignMethod, one RLock..RUnlock) once per signature entry, and other
\* goroutines may write both in between.  regs[i] is the registry as the
\* look-up of entry i finds it, dupes[i] the toggle as the header check of
\* entry i finds it.  Steady(x): every read finds x.
Steady(x) == [i \in 1..MaxBlocks |-> x]

\* The caller's payload decoders (the json.Unmarshaler argument): none, one
\* that accepts the payload and yields its own value, one that returns an
\* error, and one that accepts and calls RemoveSigningMethod on the way.
Decoders == {"ok", "fails", "removes"}

\* The value a decoder that accepts makes of the decoded payload.
CustomValue(v) == IF v = "P1" THEN "U1" ELSE IF v = "P2" THEN "U2" ELSE v

\* (p *payload) UnmarshalJSON(b) with p.u = u: the decoder is invoked on the
\* decoded payload; when it returns an error the default decoded payload is
\* kept and the error is not reported.
PayloadUnmarshalWith(u, b) ==
    LET d == PayloadUnmarshalJSON(b) IN
    IF d.err # NilStr THEN [err |-> d.err, v |-> NilStr, called |-> FALSE]
    ELSE IF u = "none" THEN [err |-> NilStr, v |-> d.v, called |-> FALSE]
    ELSE IF u = "fails" THEN [err |-> NilStr, v |-> d.v, called |-> TRUE]
    ELSE [err |-> NilStr, v |-> CustomValue(d.v), called |-> TRUE]

\* One pass of the loop of parseGeneral up to the look-up, and parseFlat up
\* to its look-up: unmarshal, then checkHeaders.  parseFlat marks the block
\* clean in between; the loop of parseGeneral sets the clean flag of the
\* inline triple, so the blocks it builds are never marked clean.
parseCheck(s, form, ignoreDupes) ==
    LET m == sigHeadUnmarshal(s) IN
    IF m.err # NilStr THEN [err |-> m.err, s |-> s]
    ELSE LET t == IF form = "flat" THEN [m.s EXCEPT !.clean = TRUE] ELSE m.s
         IN [err |-> checkHeaders(t.protected, t.unprotected, ignoreDupes), s |-> t]

\* The JWS parseFlat and parseGeneral return.
ParsedJWS(form, v, doc, sb) ==
    [NoJWS EXCEPT !.live = TRUE, !.payload = v, !.plcache = doc.payload, !.clean = TRUE,
                  !.sb = sb, !.sbnil = IF form = "flat" THEN FALSE ELSE ~doc.hasSigs]

\* The per-entry loop of parseGeneral from entry i on.
RECURSIVE parseGeneralLoop(_, _, _, _)
parseGeneralLoop(regs, dupes, sigs, i) ==
    IF i > Len(sigs) THEN [err |-> NilStr, sb |-> sigs]
    ELSE LET c == parseCheck(sigs[i], "general", dupes[i]) IN
         IF c.err # NilStr THEN [err |-> c.err, sb |-> <<>>]
         ELSE LET a == assignMethod(regs[i], c.s, c.s.protected) IN
              IF a.err # NilStr THEN [err |-> a.err, sb |-> <<>>]
              ELSE parseGeneralLoop(regs, dupes, [sigs EXCEPT ![i] = a.s], i + 1)

\* (g *generic) parseGeneral(u...)
parseGeneral(regs, dupes, g, u) ==
    LET p == PayloadUnmarshalWith(u, g.payload) IN
    IF p.err # NilStr THEN [j |-> NoJWS, err |-> p.err]
    ELSE LET r == parseGeneralLoop(regs, dupes,
                                   [i \in 1..Len(g.sigs) |-> DecodeEntry(g.sigs[i])], 1)
         IN IF r.err # NilStr THEN [j |-> NoJWS, err |-> r.err]
            ELSE [j |-> ParsedJWS("general", p.v, g, r.sb), err |-> NilStr]

\* (g *generic) parseFlat(u...)
parseFlat(regs, dupes, g, u) ==
    LET p == PayloadUnmarshalWith(u, g.payload) IN
    IF p.err # NilStr THEN [j |-> NoJWS, err |-> p.err]
    ELSE LET c == parseCheck(DecodeEntry(g.inline), "flat", dupes[1]) IN
         IF c.err # NilStr THEN [j |-> NoJWS, err |-> c.err]
         ELSE LET a == assignMethod(regs[1], c.s, c.s.protected) IN
              IF a.err # NilStr THEN [j |-> NoJWS, err |-> a.err]
              ELSE [j |-> ParsedJWS("flat", p.v, g, <<a.s>>), err |-> NilStr]

\* bytes.Split(encoded, "."): the number of segments of a document.
SplitCount(doc) == IF doc.form = "compact" THEN doc.np ELSE 1

\* A ParseCompact that returns no JWS with the nested-token error.
ParseCompact_NilOnNested(reg, doc) ==
    IF SplitCount(doc) # 3 THEN [j |-> NoJWS, err |-> "ErrNotCompact"]
    ELSE LET p == ProtectedUnmarshalJSON(doc.inline.Protected) IN
         IF p.err # NilStr THEN [j |-> NoJWS, err |-> p.err]
         ELSE LET a == assignMethod(reg, [NilBlock EXCEPT !.protected = p.h,
                                                         !.clean = TRUE], p.h) IN
              IF a.err # NilStr THEN [j |-> NoJWS, err |-> a.err]
              ELSE LET v == PayloadUnmarshalJSON(doc.payload)
                       sg == SignatureUnmarshalJSON(doc.inline.Signature)
                   IN
                   IF v.err # NilStr THEN [j |-> NoJWS, err |-> v.err]
                   ELSE IF sg.err # NilStr THEN [j |-> NoJWS, err |-> sg.err]
                   ELSE IF HeaderGet(p.h, "cty") = "JWT"
                        THEN [j |-> NoJWS, err |-> "ErrHoldsJWE"]
                        ELSE [j |-> [NoJWS EXCEPT
                                       !.live = TRUE, !.payload = v.v, !.clean = TRUE,
                                       !.sb = <<[a.s EXCEPT !.Signature = sg.sig]>>,
                                       !.sbnil = FALSE],
                              err |-> NilStr]

\* ParseCompact(encoded): the block keeps the decoded header map only; neither
\* the header segment nor the payload segment is stored.  The signature
\* segment is decoded last, and its error ends the parse.
ParseCompact(reg, doc) ==
    IF SplitCount(doc) # 3 THEN [j |-> NoJWS, err |-> "ErrNotCompact"]
    ELSE LET p == ProtectedUnmarshalJSON(doc.inline.Protected) IN
         IF p.err # NilStr THEN [j |-> NoJWS, err |-> p.err]
         ELSE LET a == assignMethod(reg, [NilBlock EXCEPT !.protected = p.h,
                                                         !.clean = TRUE], p.h) IN
              IF a.err # NilStr THEN [j |-> NoJWS, err |-> a.err]
              ELSE LET v == PayloadUnmarshalJSON(doc.payload)
                       sg == SignatureUnmarshalJSON(doc.inline.Signature)
                   IN
                   IF v.err # NilStr THEN [j |-> NoJWS, err |-> v.err]
                   ELSE IF sg.err # NilStr THEN [j |-> NoJWS, err |-> sg.err]
                   ELSE LET j == [NoJWS EXCEPT
                                    !.live = TRUE, !.payload = v.v, !.clean = TRUE,
                                    !.sb = <<[a.s EXCEPT !.Signature = sg.sig]>>,
                                    !.sbnil = FALSE]
                        IN IF HeaderGet(p.h, "cty") = "JWT"
                           THEN [j |-> j, err |-> "ErrHoldsJWE"]
                           ELSE [j |-> j, err |-> NilStr]

\* ParseGeneral(encoded, u...), ParseFlat(encoded, u...): json.Unmarshal,
\* then the form.
ParseGeneral(regs, dupes, doc, u) ==
    IF ~JSONUnmarshals(doc) THEN [j |-> NoJWS, err |-> "json"]
    ELSE parseGeneral(regs, dupes, doc, u)

ParseFlat(regs, dupes, doc, u) ==
    IF ~JSONUnmarshals(doc) THEN [j |-> NoJWS, err |-> "json"]
    ELSE parseFlat(regs, dupes, doc, u)

\* A selection that takes the two JSON paths the wrong way round.
ParseSelect_Swapped(doc) ==
    IF ~JSONUnmarshals(doc) THEN "compact"
    ELSE IF ~doc.hasSigs THEN "general"
    ELSE "flat"

\* The path Parse takes: compact when json.Unmarshal fails, flat when
\* g.Signatures is nil, general otherwise.
ParseSelect(doc) ==
    IF ~JSONUnmarshals(doc) THEN "compact"
    ELSE IF ~doc.hasSigs THEN "flat"
    ELSE "general"

\* Parse(encoded, u...); ParseCompact never reads u.
Parse(regs, dupes, doc, u) ==
    LET path == ParseSelect(doc) IN
    IF path = "compact" THEN ParseCompact(regs[1], doc)
    ELSE IF path = "flat" THEN parseFlat(regs, dupes, doc, u)
    ELSE parseGeneral(regs, dupes, doc, u)

\* The path a call of the entry point name takes on doc; "json": the
\* json.Unmarshal of ParseFlat or ParseGeneral fails.
ParsePath(name, doc) ==
    IF name = "ParseCompact" THEN "compact"
    ELSE IF name = "Parse" THEN ParseSelect(doc)
    ELSE IF ~JSONUnmarshals(doc) THEN "json"
    ELSE IF name = "ParseFlat" THEN "flat"
    ELSE "general"

\* A parse call up to its first header check: done tells that it has
\* returned, with j and err; else v is the decoded payload, sb the entries
\* as json.Unmarshal left them and form the path.  called: the decoder was
\* invoked.  ParseCompact is one look-up in registry reg.
ParseBegin(name, reg, doc, u) ==
    LET path == ParsePath(name, doc)
        p == PayloadUnmarshalWith(u, doc.payload)
        sb == IF path = "flat" THEN <<DecodeEntry(doc.inline)>>
              ELSE [i \in 1..Len(doc.sigs) |-> DecodeEntry(doc.sigs[i])]
        r == [done |-> TRUE, j |-> NoJWS, err |-> NilStr, called |-> FALSE,
              v |-> NilStr, sb |-> <<>>, form |-> path, regs |-> <<>>]
    IN IF path = "compact"
       THEN LET c == ParseCompact(reg, doc) IN
            [r EXCEPT !.j = c.j, !.err = c.err, !.regs = <<reg>>]
       ELSE IF path = "json" THEN [r EXCEPT !.err = "json"]
       ELSE IF p.err # NilStr THEN [r EXCEPT !.err = p.err]
       ELSE IF Len(sb) = 0
       THEN [r EXCEPT !.j = ParsedJWS(path, p.v, doc, sb), !.called = p.called]
       ELSE [r EXCEPT !.done = FALSE, !.called = p.called, !.v = p.v, !.sb = sb]


(***************************************************************************)
(* Verification.  Block positions are counted from 0 as in the code; block *)
(* position x is j.sb[x + 1].                                              *)
(***************************************************************************)
\* A verify that lacks the method test: what C3 rules out.
sigHeadVerify_NoMethodTest(s, pl, key, method) ==
    [err |-> MethodVerify(method, format(s.Protected, pl), s.Signature, key),
     called |-> TRUE]

\* (s *sigHead) verify / validate: the method test, then the method's Verify.
\* called tells whether the method's Verify was invoked.
sigHeadVerify(s, pl, key, method) ==
    IF s.method # method THEN [err |-> "ErrMismatchedAlgorithms", called |-> FALSE]
    ELSE [err |-> MethodVerify(method, format(s.Protected, pl), s.Signature, key),
          called |-> TRUE]

\* (j *jws) Verify(key, method) and (j *JWS) Validate(key, method)
Verify(j, key, method) ==
    IF Len(j.sb) < 1 THEN [err |-> "ErrCannotValidate", called |-> {}, ok |-> {}]
    ELSE LET r == sigHeadVerify(j.sb[1], j.plcache, key, method) IN
         [err |-> r.err,
          called |-> IF r.called THEN {0} ELSE {},
          ok |-> IF r.err = NilStr THEN {0} ELSE {}]

\* SigningOpts; Indices is a slice, nil or not.
NilInts == [nil |-> TRUE, s |-> <<>>]
MkInts(s) == [nil |-> FALSE, s |-> s]
ZeroOpts == [Number |-> 0, Indices |-> NilInts, ptr |-> 0]

\* (s *SigningOpts) Append(x)
OptsAppend(o, x) == [o EXCEPT !.Indices = MkInts(Append(o.Indices.s, x))]

\* (s *SigningOpts) Needs(x): the answer, and the receiver afterwards.
OptsNeeds(o, x) ==
    IF o.ptr < Len(o.Indices.s) /\ o.Indices.s[o.ptr + 1] = x
    THEN [yes |-> TRUE, o |-> [o EXCEPT !.ptr = o.ptr + 1]]
    ELSE [yes |-> FALSE, o |-> o]

\* (s *SigningOpts) Inc()
OptsInc(o) == [o EXCEPT !.Number = o.Number + 1]

\* eq(a, b []int)
eq(a, b) ==
    IF a.nil /\ b.nil THEN TRUE
    ELSE IF a.nil \/ b.nil \/ Len(a.s) # Len(b.s) THEN FALSE
    ELSE \A i \in 1..Len(a.s) : a.s[i] = b.s[i]

\* (s *SigningOpts) Validate(have)
OptsValidate(o, have) ==
    IF have.Number < o.Number \/ (~o.Indices.nil /\ ~eq(o.Indices, have.Indices))
    THEN "ErrNotEnoughValidSignatures"
    ELSE NilStr

\* (m MultiError) sanityCheck(): nil for a nil slice, else the MultiError.
sanityCheck(m) == IF Len(m) = 0 THEN NilStr ELSE "MultiError"

\* The loop of VerifyMulti from block position x on.  m collects the errors,
\* o2 what verified; called and ok record the positions whose method's Verify
\* was invoked and the positions that verified.  A Verify that panics ends
\* the call where it stands: panicked.
RECURSIVE verifyLoop(_, _, _, _, _)
verifyLoop(j, keys, methods, x, st) ==
    IF x >= Len(j.sb) THEN st
    ELSE LET r == sigHeadVerify(j.sb[x + 1], j.plcache, keys[x + 1], methods[x + 1])
             c == IF r.called THEN st.called \cup {x} ELSE st.called
         IN IF r.err = "panic" THEN [st EXCEPT !.panicked = TRUE, !.called = c]
            ELSE IF r.err # NilStr
            THEN verifyLoop(j, keys, methods, x + 1,
                            [st EXCEPT !.m = Append(st.m, r.err), !.called = c])
            ELSE LET n == OptsNeeds(st.o, x)
                     o2 == IF n.yes THEN OptsAppend(OptsInc(st.o2), x) ELSE OptsInc(st.o2)
                 IN verifyLoop(j, keys, methods, x + 1,
                               [st EXCEPT !.o = n.o, !.o2 = o2, !.called = c,
                                          !.ok = st.ok \cup {x}])

\* A VerifyMulti without the arity checks: it verifies the first block with
\* the first key and method whenever there is one of each.
VerifyMulti_PartialCheck(j, keys, methods, onil, o) ==
    IF Len(keys) >= 1 /\ Len(methods) >= 1 /\ Len(j.sb) >= 1
    THEN LET r == Verify(j, keys[1], methods[1]) IN
         [err |-> r.err, called |-> r.called, ok |-> r.ok, o |-> o, m |-> <<>>]
    ELSE [err |-> "ErrNotEnoughMethods", called |-> {}, ok |-> {}, o |-> o, m |-> <<>>]

\* (j *jws) VerifyMulti(keys, methods, o); onil: the caller passed no options.
\* The result carries the caller's options object as the call leaves it.
VerifyMulti(j, keys, methods, onil, o) ==
    IF Len(keys) = 1 /\ Len(methods) = 1 /\ Len(j.sb) = 1
    THEN LET r == Verify(j, keys[1], methods[1]) IN
         [err |-> r.err, called |-> r.called, ok |-> r.ok, o |-> o, m |-> <<>>]
    ELSE IF Len(j.sb) # Len(methods)
    THEN [err |-> "ErrNotEnoughMethods", called |-> {}, ok |-> {}, o |-> o, m |-> <<>>]
    ELSE IF BadKeyArity(Len(keys), Len(j.sb))
    THEN [err |-> "ErrNotEnoughKeys", called |-> {}, ok |-> {}, o |-> o, m |-> <<>>]
    ELSE LET st == verifyLoop(j, SpreadKeys(keys, Len(methods)), methods, 0,
                              [o |-> IF onil THEN ZeroOpts ELSE o, o2 |-> ZeroOpts,
                               m |-> <<>>, called |-> {}, ok |-> {},
                               panicked |-> FALSE])
             v == OptsValidate(st.o, st.o2)
         IN [err |-> IF st.panicked THEN "panic"
                     ELSE IF v # NilStr THEN v ELSE sanityCheck(st.m),
             called |-> st.called, ok |-> st.ok,
             o |-> IF onil THEN o ELSE st.o, m |-> st.m]

\* (j *jws) VerifyCallback(fn, methods, o): fn is handed the JWS and returns
\* the keys or an error; fn is what it returns.
VerifyCallback(j, fn, methods, onil, o) ==
    IF fn.err # NilStr
    THEN [err |-> fn.err, called |-> {}, ok |-> {}, o |-> o, m |-> <<>>]
    ELSE VerifyMulti(j, fn.keys, methods, onil, o)

\* The constant Any of ValidateMulti.
AnyIdx == -1

\* sort.Ints(idx)
SortInts(idx) == SortSeq(idx, LAMBDA a, b : a < b)

\* The loop of ValidateMulti from block position x on; rp counts.
RECURSIVE validateLoop(_, _, _, _, _, _, _)
validateLoop(j, keys, methods, any, idx, x, st) ==
    IF x >= Len(j.sb) THEN st
    ELSE LET r == sigHeadVerify(j.sb[x + 1], j.plcache, keys[x + 1], methods[x + 1])
             hit == (r.err = NilStr /\ any)
                    \/ (st.rp < Len(idx) /\ idx[st.rp + 1] = x)
             c == IF r.called THEN st.called \cup {x} ELSE st.called
         IN IF r.err = "panic" THEN [st EXCEPT !.panicked = TRUE, !.called = c]
            ELSE validateLoop(j, keys, methods, any, idx, x + 1,
                              [rp |-> IF hit THEN st.rp + 1 ELSE st.rp,
                               called |-> c,
                               ok |-> IF r.err = NilStr THEN st.ok \cup {x} ELSE st.ok,
                               panicked |-> FALSE])

\* (j *JWS) ValidateMulti(keys, methods, idx...)
ValidateMulti(j, keys, methods, idx) ==
    IF Len(j.sb) # Len(methods)
    THEN [err |-> "ErrNotEnoughMethods", called |-> {}, ok |-> {}]
    ELSE IF BadKeyArity(Len(keys), Len(j.sb))
    THEN [err |-> "ErrNotEnoughKeys", called |-> {}, ok |-> {}]
    ELSE LET any == Len(idx) = 1 /\ idx[1] = AnyIdx
             sorted == IF any THEN idx ELSE SortInts(idx)
             st == validateLoop(j, SpreadKeys(keys, Len(methods)), methods, any, sorted, 0,
                                [rp |-> 0, called |-> {}, ok |-> {}, panicked |-> FALSE])
         IN [err |-> IF st.panicked THEN "panic"
                     ELSE IF st.rp < Len(sorted) THEN "ErrDidNotValidate" ELSE NilStr,
             called |-> st.called, ok |-> st.ok]


(***************************************************************************)
(* The setters.  i is the variadic index argument: <<>> or <<x>>.          *)
(***************************************************************************)
\* The block position the indexed accessors choose.
PickIndex(j, i) ==
    IF Len(i) > 0 /\ Len(i) < Len(j.sb) /\ i[1] > -1 THEN i[1] ELSE 0

\* (j *JWS) SetPayload(val): the payload cache's flag is left as it is.
SetPayload(j, val) == [j |-> [j EXCEPT !.payload = val], err |-> NilStr]

\* (j *JWS) SetProtected(key, val, i...); indexing past the blocks and
\* writing to a nil map panic.
SetProtected(j, key, val, i) ==
    LET k == PickIndex(j, i) IN
    IF k >= Len(j.sb) \/ j.sb[k + 1].protected.nil THEN [j |-> j, err |-> "panic"]
    ELSE [j |-> [j EXCEPT !.sb[k + 1].protected = HeaderSet(@, key, val)],
          err |-> NilStr]

\* (j *JWS) RemoveProtected(key, i...)
RemoveProtected(j, key, i) ==
    LET k == PickIndex(j, i) IN
    IF k >= Len(j.sb) THEN [j |-> j, err |-> "panic"]
    ELSE [j |-> [j EXCEPT !.sb[k + 1].protected = HeaderDel(@, key)], err |-> NilStr]

\* (j *JWS) SetUnprotected(key, val, i...)
SetUnprotected(j, key, val, i) ==
    LET k == PickIndex(j, i) IN
    IF k >= Len(j.sb) \/ j.sb[k + 1].unprotected.nil THEN [j |-> j, err |-> "panic"]
    ELSE [j |-> [j EXCEPT !.sb[k + 1].unprotected = HeaderSet(@, key, val)],
          err |-> NilStr]

\* (j *JWS) RemoveUnprotected(key, i...)
RemoveUnprotected(j, key, i) ==
    LET k == PickIndex(j, i) IN
    IF k >= Len(j.sb) THEN [j |-> j, err |-> "panic"]
    ELSE [j |-> [j EXCEPT !.sb[k + 1].unprotected = HeaderDel(@, key)], err |-> NilStr]

\* (j *JWS) GetProtected(key, i...): reads block k's protected header.
GetProtected(j, key, i) ==
    LET k == PickIndex(j, i) IN
    IF k >= Len(j.sb) THEN [v |-> NilStr, err |-> "panic"]
    ELSE [v |-> HeaderGet(j.sb[k + 1].protected, key), err |-> NilStr]

\* (j *JWS) GetUnprotected(key, i...)
GetUnprotected(j, key, i) ==
    LET k == PickIndex(j, i) IN
    IF k >= Len(j.sb) THEN [v |-> NilStr, err |-> "panic"]
    ELSE [v |-> HeaderGet(j.sb[k + 1].unprotected, key), err |-> NilStr]

(***************************************************************************)
(* The registry's writers.                                                 *)
(***************************************************************************)
\* RegisterSigningMethod(sm) up to mu.Lock(): the look-up under the read
\* lock, which is released before the test; it panics on a name the map
\* held at the look-up.
RegisterLookup(reg, sm) ==
    IF GetSigningMethod(reg, Alg(sm)) # NilStr THEN "panic" ELSE NilStr

\* RegisterSigningMethod(sm) under the write lock: signingMethods[sm.Alg()] = sm
RegisterWrite(reg, sm) == [reg EXCEPT ![Alg(sm)] = sm]

\* RemoveSigningMethod(sm): deletes the entry under sm's name.
RemoveSigningMethod(reg, sm) == [reg EXCEPT ![Alg(sm)] = NilStr]

(***************************************************************************)
(* JWT claims.  A claim set is a map; of its entries the model keeps exp   *)
(* and nbf.  An entry is absent, or holds a number in one of the two Go    *)
(* representations a claim set meets: int64 (what SetExpiration and        *)
(* SetNotBefore store) and float64 (what encoding/json decodes a number    *)
(* of a parsed token to).  int64 is modelled IntBits wide.                 *)
(***************************************************************************)
MinInt64 == -(2 ^ (IntBits - 1))
MaxInt64 == (2 ^ (IntBits - 1)) - 1

\* int64 arithmetic wraps around.
Wrap(x) == ((x - MinInt64) % (2 ^ IntBits)) + MinInt64

Absent == [rep |-> "none", v |-> 0]
Int64(v) == [rep |-> "int64", v |-> v]
Float64(v) == [rep |-> "float64", v |-> v]
Has(e) == e.rep # "none"

\* (c Claims) expiration / Expiration: c.Get("exp").(int64)
expiration(c) ==
    IF c.exp.rep = "int64" THEN [v |-> c.exp.v, ok |-> TRUE] ELSE [v |-> 0, ok |-> FALSE]

\* (c Claims) notBefore / NotBefore: c.Get("nbf").(int64)
notBefore(c) ==
    IF c.nbf.rep = "int64" THEN [v |-> c.nbf.v, ok |-> TRUE] ELSE [v |-> 0, ok |-> FALSE]

\* within(cur, delta, max)
within(cur, delta, max) == Wrap(cur + delta) < max \/ Wrap(cur - delta) < max

\* (c Claims) Validate(now, expLeeway, nbfLeeway)
ClaimsValidate(c, now, expLeeway, nbfLeeway) ==
    LET exp == expiration(c)
        nbf == notBefore(c)
    IN IF exp.ok /\ ~within(exp.v, expLeeway, now) THEN "ErrTokenIsExpired"
       ELSE IF nbf.ok /\ ~within(nbf.v, nbfLeeway, now) THEN "ErrTokenNotYetValid"
       ELSE NilStr

\* No call of Claims.Validate has returned.
NoValidate ==
    [op |-> "none", c |-> [exp |-> Absent, nbf |-> Absent], now |-> 0,
     expLeeway |-> 0, nbfLeeway |-> 0, err |-> NilStr]

\* No claims at all, and the claims as a parsed token holds them: the
\* numbers json.Unmarshal decodes are float64.
NoClaims == [exp |-> Absent, nbf |-> Absent]
AsParsed(c) ==
    [exp |-> IF Has(c.exp) THEN Float64(c.exp.v) ELSE Absent,
     nbf |-> IF Has(c.nbf) THEN Float64(c.nbf.v) ELSE Absent]

\* (c Claims) Set(key, val) and Del(key), on the entries the model keeps.
ClaimKeys == {"exp", "nbf"}
ClaimsSet(c, key, val) == IF key = "exp" THEN [c EXCEPT !.exp = val] ELSE [c EXCEPT !.nbf = val]
ClaimsDel(c, key) == ClaimsSet(c, key, Absent)

\* (c Claims) SetExpiration / SetNotBefore: Set of an int64.
SetExpiration(c, v) == ClaimsSet(c, "exp", Int64(v))
SetNotBefore(c, v) == ClaimsSet(c, "nbf", Int64(v))

\* (c Claims) RemoveExpiration / RemoveNotBefore
RemoveExpiration(c) == ClaimsDel(c, "exp")
RemoveNotBefore(c) == ClaimsDel(c, "nbf")

\* jwt.Opts; Fn is nil, or a ValidateFunc: one that returns nil ("accepts")
\* or an error ("rejects"), or one that changes the claims it is handed and
\* returns nil ("removes": c.RemoveExpiration(); "sets": c.SetNotBefore).
ZeroJWTOpts == [EXP |-> 0, NBF |-> 0, Fn |-> NilStr]
FnTime == 2

\* The claims as the ValidateFunc leaves them: it is handed the live map.
FnClaims(fn, c) ==
    IF fn = "removes" THEN RemoveExpiration(c)
    ELSE IF fn = "sets" THEN SetNotBefore(c, FnTime)
    ELSE c

\* NewJWT(claims, method).  pclaims is the claim set whose encoding the
\* payload cache holds, dclaims the one the serialized token holds.
NewJWT(claims, method) ==
    [j |-> [New("P1", <<method>>) EXCEPT !.isJWT = TRUE], claims |-> claims,
     isClaims |-> TRUE, doc |-> NoDoc, pclaims |-> NoClaims, dclaims |-> NoClaims]

\* (j *JWS) Serialize(key) of a JWT: Compact.  cache() encodes the claims
\* as they are now unless the payload cache is clean.
Serialize(t, key, ns) ==
    LET r == Compact(t.j, key, ns)
        pc == IF t.j.clean THEN t.pclaims ELSE t.claims
    IN [err |-> r.err,
        tok |-> [t EXCEPT !.j = r.j, !.pclaims = pc,
                          !.doc = IF r.err = NilStr THEN r.out ELSE @,
                          !.dclaims = IF r.err = NilStr THEN pc ELSE @]]

\* ParseJWT(encoded): ParseCompact, then the payload must be a JSON object.
\* claims is the claim set the token's payload encodes.
ParseJWT(reg, doc, claims, isClaims) ==
    LET t == ParseCompact(reg, doc) IN
    IF t.err # NilStr THEN [err |-> t.err, tok |-> NilStr]
    ELSE IF ~isClaims THEN [err |-> "ErrIsNotJWT", tok |-> NilStr]
    ELSE [err |-> NilStr,
          tok |-> [j |-> [t.j EXCEPT !.isJWT = TRUE], claims |-> AsParsed(claims),
                   isClaims |-> TRUE, doc |-> doc, pclaims |-> claims,
                   dclaims |-> claims]]

\* JWS.Verify up to the ValidateFunc: the tests of isJWT, of the signature
\* and of the payload's type.
VerifySignature(t, key, m) ==
    IF ~t.j.isJWT THEN [ran |-> FALSE, sigerr |-> NilStr, err |-> "ErrIsNotJWT", pc |-> "done"]
    ELSE LET r == Verify(t.j, key, m) IN
         IF r.err # NilStr THEN [ran |-> TRUE, sigerr |-> r.err, err |-> r.err, pc |-> "done"]
         ELSE IF ~t.isClaims
         THEN [ran |-> TRUE, sigerr |-> NilStr, err |-> "ErrIsNotJWT", pc |-> "done"]
         ELSE [ran |-> TRUE, sigerr |-> NilStr, err |-> NilStr, pc |-> "fn"]

\* A Verify in which a ValidateFunc that accepts ends the verification.
VerifyFn_Decides(fn) ==
    IF fn = NilStr THEN [ran |-> FALSE, err |-> NilStr, pc |-> "claims"]
    ELSE IF fn = "rejects" THEN [ran |-> TRUE, err |-> "ErrFn", pc |-> "done"]
    ELSE [ran |-> TRUE, err |-> NilStr, pc |-> "done"]

\* JWS.Verify at the ValidateFunc: called if given, its error returned.
VerifyFn(fn) ==
    IF fn = NilStr THEN [ran |-> FALSE, err |-> NilStr, pc |-> "claims"]
    ELSE IF fn = "rejects" THEN [ran |-> TRUE, err |-> "ErrFn", pc |-> "done"]
    ELSE [ran |-> TRUE, err |-> NilStr, pc |-> "claims"]

NoToken ==
    [j |-> NoJWS, claims |-> NoClaims, isClaims |-> FALSE, doc |-> NoDoc,
     pclaims |-> NoClaims, dclaims |-> NoClaims]

NoVerify ==
    [pc |-> "idle", key |-> NilStr, m |-> NilStr, o |-> ZeroJWTOpts, sigerr |-> NilStr,
     fnerr |-> NilStr, now |-> 0, trace |-> <<>>, err |-> NilStr]

(***************************************************************************)
(* The state.                                                              *)
(*   j               the JWS object the caller holds                       *)
(*   signingMethods  the registry                                          *)
(*   IgnoreDupes     the duplicate-header toggle                           *)
(*   ret             the call that has just returned: its name, arguments, *)
(*                   results, and what it was seen to do                   *)
(*   wire            the document the last successful serialization made,  *)
(*                   with the keys and bound methods it was made with      *)
(*   origin          how j came to be: "new" (built by New, no setter      *)
(*                   since), "mod" (built by New, a setter called since),  *)
(*                   "rt" (parsed from the wire document of a "new"        *)
(*                   object by its form's parser or by Parse), "parsed"    *)
(*                   (parsed otherwise),                                   *)
(*                   "pmod" (parsed, a setter called since)                *)
(*   nops            the number of state-changing calls so far             *)
(***************************************************************************)
VARIABLES j, signingMethods, IgnoreDupes, ret, wire, origin, nops

(***************************************************************************)
(* The state of the goroutines that use the registry concurrently.         *)
(*   mu       the registry's sync.RWMutex: w, the goroutine that has taken *)
(*            the write side (0: none), and r, the goroutines that hold    *)
(*            the read side                                                *)
(*   calls    per goroutine, the registry call it is in: its name, its     *)
(*            argument, where it stands, what its lookup read, whether it  *)
(*            wrote the map, and how its last call ended                   *)
(*   winners  per name, the goroutines whose RegisterSigningMethod of the  *)
(*            name completed normally since the name was last deleted      *)
(***************************************************************************)
VARIABLES mu, calls, winners

regvars == <<mu, calls, winners>>

Threads == 1..NThreads

\* A goroutine outside the registry that has made no call yet.
NoCall ==
    [op |-> "none", sm |-> NilStr, alg |-> NilStr, pc |-> "idle", seen |-> NilStr,
     wrote |-> FALSE, out |-> "none"]

(***************************************************************************)
(* The state of the claims validation.                                     *)
(*   cv   the call of Claims.Validate that has just returned: the claims,  *)
(*        the three arguments and the error                                *)
(*   tok  the JWT the caller holds: the JWS object, the claim set that is  *)
(*        its payload (claims; isClaims tells whether the payload is a     *)
(*        claim set at all) and the token Serialize last made of it        *)
(*   vr   the call of JWS.Verify in progress: its arguments, where it      *)
(*        stands, what signature validation and the ValidateFunc returned, *)
(*        the steps taken so far in order, and the error it returns        *)
(***************************************************************************)
VARIABLES cv, tok, vr

jwtvars == <<cv, tok, vr>>

(***************************************************************************)
(* The registry and the toggle are process-wide.  While the caller is      *)
(* inside a parse or inside RegisterSigningMethod, another goroutine may   *)
(* write them.                                                             *)
(*   other  the other goroutine: idle, or inside RegisterSigningMethod(sm) *)
(*          between its look-up and its write ("write")                    *)
(***************************************************************************)
VARIABLES other

NoOther == [pc |-> "idle", sm |-> NilStr]

\* The state of the JWS calls.
jwsvars == <<j, IgnoreDupes, ret, wire, origin, nops, other>>

\* What the single-caller actions leave alone.
aux == <<regvars, jwtvars, other>>

vars ==
    <<j, signingMethods, IgnoreDupes, ret, wire, origin, nops, mu, calls, winners, cv,
      tok, vr, other>>

NoRet ==
    [op |-> "none", err |-> NilStr, got |-> FALSE, out |-> NoDoc, doc |-> NoDoc,
     keys |-> <<>>, methods |-> <<>>, onil |-> TRUE, o |-> ZeroOpts, oafter |-> ZeroOpts,
     idx |-> <<>>, called |-> {}, ok |-> {}, nsign |-> 0, nenc |-> 0, again |-> FALSE,
     hkey |-> NilStr, hval |-> NilStr, i |-> <<>>, u |-> "none", ucalled |-> FALSE,
     perr |-> NilStr, psigs |-> <<>>, fnerr |-> NilStr, copts |-> ZeroOpts, nmut |-> 0,
     pname |-> NilStr, pc |-> NilStr, px |-> 0, psb |-> <<>>, pv |-> NilStr,
     pform |-> NilStr, regs |-> <<>>, dupes |-> <<>>]

NoWire ==
    [doc |-> NoDoc, op |-> "none", keys |-> <<>>, methods |-> <<>>, fresh |-> FALSE,
     stale |-> FALSE]

Init ==
    /\ j = NoJWS
    /\ signingMethods = InitialMethods
    /\ IgnoreDupes = FALSE
    /\ ret = NoRet
    /\ wire = NoWire
    /\ origin = "none"
    /\ nops = 0
    /\ mu = [w |-> 0, r |-> {}]
    /\ calls = [t \in Threads |-> NoCall]
    /\ winners = [a \in Algs |-> {}]
    /\ cv = NoValidate
    /\ tok = NoToken
    /\ vr = NoVerify
    /\ other = NoOther

\* A call starts when the caller has taken the previous call's result.
Idle == ret.op = "none"
CanChange == Idle /\ nops < MaxOps

\* The caller is inside a call that takes more than one step: a parse
\* between two reads of the registry or the toggle ("parsing"), or
\* RegisterSigningMethod between its look-up and its write ("registering").
InCall == ret.op \in {"parsing", "registering"}

\* The caller takes the result of the call that returned.
Resume ==
    /\ ret.op # "none" /\ ~InCall
    /\ ret' = NoRet
    /\ UNCHANGED <<j, signingMethods, IgnoreDupes, wire, origin, nops, aux>>

Staled == [wire EXCEPT !.stale = TRUE]

\* What a setter makes of origin.
Touched == IF origin \in {"new", "mod"} THEN "mod" ELSE "pmod"

DoNew(content, methods) ==
    /\ CanChange /\ ~j.live
    /\ j' = New(content, methods)
    /\ ret' = [NoRet EXCEPT !.op = "New", !.got = TRUE, !.methods = methods]
    /\ origin' = "new"
    /\ wire' = Staled
    /\ nops' = nops + 1
    /\ UNCHANGED <<signingMethods, IgnoreDupes, aux>>

DoSetPayload(val) ==
    /\ CanChange /\ j.live
    /\ j' = SetPayload(j, val).j
    /\ ret' = [NoRet EXCEPT !.op = "SetPayload", !.hval = val]
    /\ origin' = Touched
    /\ wire' = Staled
    /\ nops' = nops + 1
    /\ UNCHANGED <<signingMethods, IgnoreDupes, aux>>

\* The four header setters share their frame.
SetterStep(name, r, key, val, i) ==
    /\ j' = r.j
    /\ ret' = [NoRet EXCEPT !.op = name, !.err = r.err, !.hkey = key, !.hval = val, !.i = i]
    /\ origin' = IF r.err = NilStr THEN Touched ELSE origin
    /\ wire' = IF r.err = NilStr THEN Staled ELSE wire
    /\ nops' = nops + 1
    /\ UNCHANGED <<signingMethods, IgnoreDupes, aux>>

DoSetProtected(key, val, i) ==
    /\ CanChange /\ j.live
    /\ SetterStep("SetProtected", SetProtected(j, key, val, i), key, val, i)

DoRemoveProtected(key, i) ==
    /\ CanChange /\ j.live
    /\ SetterStep("RemoveProtected", RemoveProtected(j, key, i), key, NilStr, i)

DoSetUnprotected(key, val, i) ==
    /\ CanChange /\ j.live
    /\ SetterStep("SetUnprotected", SetUnprotected(j, key, val, i), key, val, i)

DoRemoveUnprotected(key, i) ==
    /\ CanChange /\ j.live
    /\ SetterStep("RemoveUnprotected", RemoveUnprotected(j, key, i), key, NilStr, i)

\* The two header getters share their frame: they change nothing.
GetterStep(name, r, key, i) ==
    /\ ret' = [NoRet EXCEPT !.op = name, !.err = r.err, !.hkey = key, !.hval = r.v, !.i = i]
    /\ UNCHANGED <<j, signingMethods, IgnoreDupes, wire, origin, nops, aux>>

DoGetProtected(key, i) ==
    /\ Idle /\ j.live
    /\ GetterStep("GetProtected", GetProtected(j, key, i), key, i)

DoGetUnprotected(key, i) ==
    /\ Idle /\ j.live
    /\ GetterStep("GetUnprotected", GetUnprotected(j, key, i), key, i)

\* The randomness the bound methods may draw: none for a deterministic one.
NonceChoices(jj, nonces) ==
    {ns \in [1..Len(jj.sb) -> nonces] :
        \A x \in 1..Len(jj.sb) : ~Randomized(jj.sb[x].method) => ns[x] = 0}

BoundMethods(jj) == [x \in 1..Len(jj.sb) |-> jj.sb[x].method]

\* The three serializers share their frame.
SerializeStep(name, r, keys) ==
    /\ j' = r.j
    /\ ret' = [NoRet EXCEPT !.op = name, !.err = r.err, !.out = r.out, !.keys = keys,
                            !.doc = wire.doc,
                            !.nsign = r.nsign, !.nenc = r.nenc,
                            !.psigs = [i \in 1..Len(j.sb) |-> j.sb[i].Signature],
                            !.again = (wire.op = name /\ wire.keys = keys /\ ~wire.stale)]
    /\ wire' = IF r.err = NilStr
               THEN [doc |-> r.out, op |-> name, keys |-> keys,
                     methods |-> BoundMethods(r.j), fresh |-> (origin = "new"),
                     stale |-> FALSE]
               ELSE wire
    /\ nops' = nops + 1
    /\ UNCHANGED <<signingMethods, IgnoreDupes, origin, aux>>

DoCompact(key, nonces) ==
    /\ CanChange /\ j.live
    /\ \E ns \in NonceChoices(j, nonces) :
          SerializeStep("Compact", Compact(j, key, ns), <<key>>)

DoFlat(key, nonces) ==
    /\ CanChange /\ j.live
    /\ \E ns \in NonceChoices(j, nonces) :
          SerializeStep("Flat", Flat(j, key, ns), <<key>>)

DoGeneral(keys, nonces) ==
    /\ CanChange /\ j.live
    /\ \E ns \in NonceChoices(j, nonces) :
          SerializeStep("General", General(j, keys, ns), keys)

\* The parser of the form a serializer writes.
FormParser(op) ==
    IF op = "Compact" THEN "ParseCompact"
    ELSE IF op = "Flat" THEN "ParseFlat"
    ELSE "ParseGeneral"

\* A parse returns: the caller holds the object the parser returns, and
\* keeps the one it held when the parser returns none.  regs and dupes are
\* the registry and the toggle as the call read them.
ParseReturn(name, jws, err, doc, u, called, regs, dupes) ==
    /\ j' = IF jws.live THEN jws ELSE j
    /\ ret' = [NoRet EXCEPT !.op = name, !.err = err, !.got = jws.live, !.doc = doc,
                            !.u = u, !.ucalled = called, !.regs = regs, !.dupes = dupes]
    /\ origin' = IF ~jws.live THEN origin
                 ELSE IF /\ u = "none" /\ doc = wire.doc /\ wire.fresh
                         /\ name \in {"Parse", FormParser(wire.op)}
                      THEN "rt" ELSE "parsed"
    /\ wire' = IF jws.live THEN Staled ELSE wire

\* The method the "removes" decoder takes out of the registry.
DecoderRemoves == "M1"

\* A parse is called: json.Unmarshal, the payload and with it the caller's
\* decoder, and for ParseCompact the whole call.  b is ParseBegin.
ParseCallStep(name, b, doc, u) ==
    /\ IF b.done
       THEN ParseReturn(name, b.j, b.err, doc, u, b.called, b.regs, <<>>)
       ELSE /\ ret' = [NoRet EXCEPT !.op = "parsing", !.pname = name, !.doc = doc,
                                    !.u = u, !.ucalled = b.called, !.pc = "check",
                                    !.px = 1, !.psb = b.sb, !.pv = b.v,
                                    !.pform = b.form]
            /\ UNCHANGED <<j, origin, wire>>
    /\ signingMethods' = IF b.called /\ u = "removes"
                         THEN RemoveSigningMethod(signingMethods, DecoderRemoves)
                         ELSE signingMethods
    /\ nops' = nops + 1
    /\ UNCHANGED <<IgnoreDupes, aux>>

\* The parse in progress unmarshals entry px and checks its headers; c is
\* parseCheck under the toggle as it is now.
ParseCheckStep(c) ==
    /\ IF c.err # NilStr
       THEN ParseReturn(ret.pname, NoJWS, c.err, ret.doc, ret.u, ret.ucalled, ret.regs,
                        Append(ret.dupes, IgnoreDupes))
       ELSE /\ ret' = [ret EXCEPT !.pc = "assign", !.psb[ret.px] = c.s,
                                  !.dupes = Append(@, IgnoreDupes)]
            /\ UNCHANGED <<j, origin, wire>>
    /\ UNCHANGED <<signingMethods, IgnoreDupes, nops, aux>>

DoParseCheck ==
    /\ ret.op = "parsing" /\ ret.pc = "check"
    /\ ParseCheckStep(parseCheck(ret.psb[ret.px], ret.pform, IgnoreDupes))

\* The parse in progress looks the method of entry px up; a is assignMethod
\* in the registry as it is now.  After the last entry the call returns.
ParseAssignStep(a) ==
    /\ IF a.err # NilStr
       THEN ParseReturn(ret.pname, NoJWS, a.err, ret.doc, ret.u, ret.ucalled,
                        Append(ret.regs, signingMethods), ret.dupes)
       ELSE IF ret.px = Len(ret.psb)
       THEN ParseReturn(ret.pname,
                        ParsedJWS(ret.pform, ret.pv, ret.doc,
                                  [ret.psb EXCEPT ![ret.px] = a.s]),
                        NilStr, ret.doc, ret.u, ret.ucalled,
                        Append(ret.regs, signingMethods), ret.dupes)
       ELSE /\ ret' = [ret EXCEPT !.pc = "check", !.px = @ + 1, !.psb[ret.px] = a.s,
                                  !.regs = Append(@, signingMethods)]
            /\ UNCHANGED <<j, origin, wire>>
    /\ UNCHANGED <<signingMethods, IgnoreDupes, nops, aux>>

DoParseAssign ==
    /\ ret.op = "parsing" /\ ret.pc = "assign"
    /\ ParseAssignStep(assignMethod(signingMethods, ret.psb[ret.px],
                                    ret.psb[ret.px].protected))

\* The four entry points, without and with a decoder.
DoParseDecoding(name, doc, u) ==
    /\ CanChange
    /\ ParseCallStep(name, ParseBegin(name, signingMethods, doc, u), doc, u)

DoParseCompact(doc) ==
    /\ CanChange
    /\ ParseCallStep("ParseCompact", ParseBegin("ParseCompact", signingMethods, doc, "none"),
                     doc, "none")

DoParseFlat(doc) ==
    /\ CanChange
    /\ ParseCallStep("ParseFlat", ParseBegin("ParseFlat", signingMethods, doc, "none"),
                     doc, "none")

DoParseGeneral(doc) ==
    /\ CanChange
    /\ ParseCallStep("ParseGeneral", ParseBegin("ParseGeneral", signingMethods, doc, "none"),
                     doc, "none")

DoParse(doc) ==
    /\ CanChange
    /\ ParseCallStep("Parse", ParseBegin("Parse", signingMethods, doc, "none"), doc, "none")

\* Process set-up: the toggle and the registry's writers.
DoSetIgnoreDupes(b) ==
    /\ CanChange /\ ~j.live /\ b # IgnoreDupes
    /\ IgnoreDupes' = b
    /\ ret' = [NoRet EXCEPT !.op = "SetIgnoreDupes"]
    /\ nops' = nops + 1
    /\ UNCHANGED <<j, signingMethods, wire, origin, aux>>

\* RegisterSigningMethod(sm) is called: the look-up and its test.  The read
\* lock is released when GetSigningMethod returns.
DoRegisterSigningMethod(sm) ==
    /\ CanChange /\ ~j.live
    /\ ret' = IF RegisterLookup(signingMethods, sm) # NilStr
              THEN [NoRet EXCEPT !.op = "RegisterSigningMethod", !.err = "panic",
                                 !.methods = <<sm>>]
              ELSE [NoRet EXCEPT !.op = "registering", !.methods = <<sm>>]
    /\ nops' = nops + 1
    /\ UNCHANGED <<j, signingMethods, IgnoreDupes, wire, origin, aux>>

\* mu.Lock(); signingMethods[sm.Alg()] = sm; mu.Unlock()
DoRegisterWrite ==
    /\ ret.op = "registering"
    /\ signingMethods' = RegisterWrite(signingMethods, ret.methods[1])
    /\ ret' = [ret EXCEPT !.op = "RegisterSigningMethod"]
    /\ UNCHANGED <<j, IgnoreDupes, wire, origin, nops, aux>>

DoRemoveSigningMethod(sm) ==
    /\ CanChange /\ ~j.live
    /\ signingMethods' = RemoveSigningMethod(signingMethods, sm)
    /\ ret' = [NoRet EXCEPT !.op = "RemoveSigningMethod", !.methods = <<sm>>]
    /\ nops' = nops + 1
    /\ UNCHANGED <<j, IgnoreDupes, wire, origin, aux>>

\* The other goroutine, while the caller is inside a call.  Its calls that
\* change nothing (a registration that panics, the removal of a name the
\* map lacks) are left out.
OtherCanChange == InCall /\ nops < MaxOps

\* RegisterSigningMethod(sm) by the other goroutine: the look-up.
OtherRegisterLookup(sm) ==
    /\ OtherCanChange /\ other.pc = "idle"
    /\ RegisterLookup(signingMethods, sm) = NilStr
    /\ other' = [pc |-> "write", sm |-> sm]
    /\ UNCHANGED <<j, signingMethods, IgnoreDupes, ret, wire, origin, nops, regvars,
                   jwtvars>>

\* RegisterSigningMethod(sm) by the other goroutine: the write.
OtherRegisterWrite ==
    /\ OtherCanChange /\ other.pc = "write"
    /\ signingMethods' = RegisterWrite(signingMethods, other.sm)
    /\ other' = NoOther
    /\ nops' = nops + 1
    /\ UNCHANGED <<j, IgnoreDupes, ret, wire, origin, regvars, jwtvars>>

\* RemoveSigningMethod(sm) by the other goroutine.
OtherRemoveSigningMethod(sm) ==
    /\ OtherCanChange /\ other.pc = "idle"
    /\ GetSigningMethod(signingMethods, Alg(sm)) # NilStr
    /\ signingMethods' = RemoveSigningMethod(signingMethods, sm)
    /\ nops' = nops + 1
    /\ UNCHANGED <<j, IgnoreDupes, ret, wire, origin, regvars, jwtvars, other>>

\* IgnoreDupes = b by the other goroutine.
OtherSetIgnoreDupes(b) ==
    /\ OtherCanChange /\ other.pc = "idle" /\ b # IgnoreDupes
    /\ IgnoreDupes' = b
    /\ nops' = nops + 1
    /\ UNCHANGED <<j, signingMethods, ret, wire, origin, regvars, jwtvars, other>>

\* The verifiers change nothing but what they return.
DoVerify(key, method) ==
    /\ Idle /\ j.live
    /\ LET r == Verify(j, key, method) IN
         ret' = [NoRet EXCEPT !.op = "Verify", !.err = r.err, !.keys = <<key>>,
                              !.methods = <<method>>, !.called = r.called, !.ok = r.ok]
    /\ UNCHANGED <<j, signingMethods, IgnoreDupes, wire, origin, nops, aux>>

DoVerifyMulti(keys, methods, onil, o) ==
    /\ Idle /\ j.live
    /\ LET r == VerifyMulti(j, keys, methods, onil, o) IN
         ret' = [NoRet EXCEPT !.op = "VerifyMulti", !.err = r.err, !.keys = keys,
                              !.methods = methods, !.onil = onil, !.o = o,
                              !.oafter = r.o, !.copts = r.o, !.called = r.called,
                              !.ok = r.ok]
    /\ UNCHANGED <<j, signingMethods, IgnoreDupes, wire, origin, nops, aux>>

\* (j *jws) VerifyCallback(fn, methods, o)
DoVerifyCallback(fn, methods, onil, o) ==
    /\ Idle /\ j.live
    /\ LET r == VerifyCallback(j, fn, methods, onil, o) IN
         ret' = [NoRet EXCEPT !.op = "VerifyCallback", !.err = r.err, !.fnerr = fn.err,
                              !.keys = fn.keys, !.methods = methods, !.onil = onil,
                              !.o = o, !.oafter = r.o, !.called = r.called, !.ok = r.ok]
    /\ UNCHANGED <<j, signingMethods, IgnoreDupes, wire, origin, nops, aux>>

\* Between two VerifyMulti calls the caller changes the options object it
\* passed: (s *SigningOpts) Append(x).  copts is the caller's object as it
\* is now, nmut counts the changes.
DoOptsAppend(x) ==
    /\ ret.op = "VerifyMulti" /\ ~ret.onil /\ ret.nmut < MaxOptsCalls
    /\ ret' = [ret EXCEPT !.copts = OptsAppend(@, x), !.nmut = @ + 1]
    /\ UNCHANGED <<j, signingMethods, IgnoreDupes, wire, origin, nops, aux>>

\* (s *SigningOpts) Needs(x) on the caller's options object: ptr moves on
\* when x is the position it stands at.
DoOptsNeeds(x) ==
    /\ ret.op = "VerifyMulti" /\ ~ret.onil /\ ret.nmut < MaxOptsCalls
    /\ ret' = [ret EXCEPT !.copts = OptsNeeds(@, x).o, !.nmut = @ + 1]
    /\ UNCHANGED <<j, signingMethods, IgnoreDupes, wire, origin, nops, aux>>

\* (s *SigningOpts) Inc() on the caller's options object.
DoOptsInc ==
    /\ ret.op = "VerifyMulti" /\ ~ret.onil /\ ret.nmut < MaxOptsCalls
    /\ ret' = [ret EXCEPT !.copts = OptsInc(@), !.nmut = @ + 1]
    /\ UNCHANGED <<j, signingMethods, IgnoreDupes, wire, origin, nops, aux>>

\* The caller repeats the VerifyMulti call it has just made: the same JWS,
\* keys and methods, and the options object as it is now.  perr keeps the
\* outcome of the call before; again tells that the options object is as
\* the call before left it.
DoVerifyMultiAgain ==
    /\ ret.op = "VerifyMulti" /\ j.live
    /\ LET r == VerifyMulti(j, ret.keys, ret.methods, ret.onil, ret.copts) IN
         ret' = [ret EXCEPT !.err = r.err, !.o = ret.copts, !.oafter = r.o,
                            !.copts = r.o, !.called = r.called, !.ok = r.ok,
                            !.again = (ret.copts = ret.oafter), !.perr = ret.err]
    /\ UNCHANGED <<j, signingMethods, IgnoreDupes, wire, origin, nops, aux>>

DoValidateMulti(keys, methods, idx) ==
    /\ Idle /\ j.live
    /\ LET r == ValidateMulti(j, keys, methods, idx) IN
         ret' = [NoRet EXCEPT !.op = "ValidateMulti", !.err = r.err, !.keys = keys,
                              !.methods = methods, !.idx = idx,
                              !.called = r.called, !.ok = r.ok]
    /\ UNCHANGED <<j, signingMethods, IgnoreDupes, wire, origin, nops, aux>>


(***************************************************************************)
(* The inputs of the lifecycle specification.                              *)
(***************************************************************************)
SeqsUpTo(S, n) == UNION {[1..k -> S] : k \in 0..n}

\* The method lists New is given: the registered methods in every order, and
\* the unregistered one alone.
NewMethodLists == SeqsUpTo({"M1", "M2"}, MaxEntries) \cup {<<"M3">>}
SignKeyLists == SeqsUpTo(Keys, MaxEntries)
\* The keys a verifier is given: the two keys, and one of a type that the
\* method's Verify does not take.
VerifyKeys == Keys \cup {InvalidKey}
IndexArgs == {<<>>, <<1>>}
HeaderArgs == {<<"alg", "ES256">>, <<"kid", "x">>}

\* Documents received from outside.  The header segments:
SegOf(kv) == Base64Encode(jsonMarshalMap(MkHeader(kv)))
EscOf(kv) == EncodeEscape(jsonMarshalMap(MkHeader(kv)))
WirePayload == PayloadBase64("P1")

\* A signature made elsewhere by method m with key "K1" over header segment
\* hs and the payload segment.
SigBy(m, hs) == MethodSign(m, format(hs, WirePayload), "K1", 0).sig

MkEntry(ps, us, sig) == [Protected |-> ps, Unprotected |-> us, Signature |-> sig]

GoodEntry == MkEntry(SegOf({<<"alg", "HS256">>}), NilSeg,
                     SigBy("M1", SegOf({<<"alg", "HS256">>})))

CraftedEntries ==
    { GoodEntry,
      \* declares ES256 and carries a signature that is valid for HS256
      MkEntry(SegOf({<<"alg", "ES256">>}), EscOf({<<"kid", "x">>}),
              SigBy("M1", SegOf({<<"alg", "ES256">>}))),
      \* kid in both headers
      MkEntry(SegOf({<<"alg", "HS256">>, <<"kid", "x">>}), EscOf({<<"kid", "x">>}),
              SigBy("M1", SegOf({<<"alg", "HS256">>, <<"kid", "x">>}))),
      \* no alg, alg not a string, alg not registered
      MkEntry(SegOf({<<"kid", "x">>}), NilSeg, NoSig),
      MkEntry(SegOf({<<"alg", "#1">>}), NilSeg, NoSig),
      MkEntry(SegOf({<<"alg", "none">>}), NilSeg, NoSig),
      \* both headers empty; a malformed header segment on either side
      MkEntry(NilSeg, NilSeg, NoSig),
      MkEntry(SegOf({<<"alg", "HS256">>}), BadSeg, NoSig),
      MkEntry(BadSeg, EscOf({<<"kid", "x">>}), NoSig),
      \* a header segment that decodes to JSON that is no object
      MkEntry(SegOf({<<"alg", "HS256">>}), EncodeEscape(PayloadBase64("P1")), NoSig),
      MkEntry(PayloadBase64("P1"), NilSeg, NoSig),
      \* a signature segment that does not decode
      MkEntry(SegOf({<<"alg", "HS256">>}), NilSeg, BadSig),
      \* a nested token
      MkEntry(SegOf({<<"alg", "HS256">>, <<"cty", "JWT">>}), NilSeg,
              SigBy("M1", SegOf({<<"alg", "HS256">>, <<"cty", "JWT">>}))) }

CompactDoc(np, e, pl) ==
    [NoDoc EXCEPT !.form = "compact", !.np = np, !.payload = pl,
                  !.inline = [e EXCEPT !.Unprotected = NilSeg]]
FlatDoc(e, pl) == [NoDoc EXCEPT !.form = "json", !.payload = pl, !.inline = e]
GeneralDoc(es, pl) ==
    [NoDoc EXCEPT !.form = "json", !.payload = pl, !.hasSigs = TRUE, !.sigs = es]

CraftedDocs ==
    {CompactDoc(3, e, WirePayload) : e \in CraftedEntries}
    \cup {CompactDoc(2, GoodEntry, WirePayload), CompactDoc(4, GoodEntry, WirePayload),
          CompactDoc(3, GoodEntry, BadSeg), FlatDoc(GoodEntry, BadSeg)}
    \cup {FlatDoc(e, WirePayload) : e \in CraftedEntries}
    \cup {GeneralDoc(<<>>, WirePayload)}
    \cup {GeneralDoc(<<e>>, WirePayload) : e \in CraftedEntries}
    \cup {GeneralDoc(<<GoodEntry, e>>, WirePayload) : e \in CraftedEntries}
    \cup {GeneralDoc(<<e, GoodEntry>>, WirePayload) : e \in CraftedEntries}

\* A parser is given the document last serialized, or, by a process that
\* holds no JWS yet, a document from outside.
ParseInputs ==
    (IF wire.doc # NoDoc THEN {wire.doc} ELSE {})
    \cup (IF ~j.live THEN CraftedDocs ELSE {})

(***************************************************************************)
(* The lifecycle specification: construction, the setters, the three       *)
(* serializers, the four parsers and single-signature verification.        *)
(***************************************************************************)
Next ==
    \/ Resume
    \/ \E c \in {"P1"}, ms \in NewMethodLists : DoNew(c, ms)
    \/ \E v \in Payloads : DoSetPayload(v)
    \/ \E a \in HeaderArgs, i \in IndexArgs : DoSetProtected(a[1], a[2], i)
    \/ \E a \in HeaderArgs, i \in IndexArgs : DoRemoveProtected(a[1], i)
    \/ \E a \in HeaderArgs, i \in IndexArgs : DoSetUnprotected(a[1], a[2], i)
    \/ \E a \in HeaderArgs, i \in IndexArgs : DoRemoveUnprotected(a[1], i)
    \/ \E k \in Keys : DoCompact(k, Nonces)
    \/ \E k \in Keys : DoFlat(k, Nonces)
    \/ \E ks \in SignKeyLists : DoGeneral(ks, Nonces)
    \/ \E d \in ParseInputs : DoParseCompact(d)
    \/ \E d \in ParseInputs : DoParseFlat(d)
    \/ \E d \in ParseInputs : DoParseGeneral(d)
    \/ \E d \in ParseInputs : DoParse(d)
    \/ DoParseCheck
    \/ DoParseAssign
    \/ \E b \in BOOLEAN : DoSetIgnoreDupes(b)
    \/ \E m \in Methods : DoRegisterSigningMethod(m)
    \/ DoRegisterWrite
    \/ \E m \in Methods : DoRemoveSigningMethod(m)
    \/ \E m \in Methods : OtherRegisterLookup(m)
    \/ OtherRegisterWrite
    \/ \E m \in Methods : OtherRemoveSigningMethod(m)
    \/ \E b \in BOOLEAN : OtherSetIgnoreDupes(b)
    \/ \E k \in VerifyKeys, m \in Methods : DoVerify(k, m)

Spec == Init /\ [][Next]_vars


(***************************************************************************)
(* The inputs of the verification specification.                           *)
(***************************************************************************)
VerifyMethods == {"M1", "M2"}
Positions == 0..(MaxBlocks - 1)

\* The method lists New is given: up to MaxBlocks blocks of one method, and
\* two lists that hold the other one.
VNewMethodLists ==
    {[x \in 1..k |-> "M1"] : k \in 0..MaxBlocks} \cup {<<"M2">>, <<"M1", "M2">>}

\* The keys and methods a verifier is given.
VKeyLists == SeqsUpTo(Keys, MaxBlocks) \cup {<<InvalidKey>>, <<"K1", InvalidKey>>}

\* What the function handed to VerifyCallback returns: an error, or keys.
VerifyCallbacks ==
    {[err |-> "ErrFn", keys |-> <<>>]}
    \cup {[err |-> NilStr, keys |-> ks] : ks \in SeqsUpTo(Keys, MaxBlocks)}
VMethodLists == SeqsUpTo(VerifyMethods, MaxBlocks)

\* The positions of a set in ascending order.
RECURSIVE Ascending(_)
Ascending(S) ==
    IF S = {} THEN <<>>
    ELSE LET lo == CHOOSE x \in S : \A y \in S : x <= y
         IN <<lo>> \o Ascending(S \ {lo})

\* Quorum options: a threshold alone, or required positions in ascending
\* order.  The caller may have called Needs on the object before it hands it
\* to a verifier: ptr is anywhere from 0 to the length of the list.
ThresholdOpts == {[ZeroOpts EXCEPT !.Number = n] : n \in 0..MaxBlocks}
IndexOpts ==
    {[ZeroOpts EXCEPT !.Indices = MkInts(Ascending(S)), !.ptr = p] :
        <<S, p>> \in {q \in (SUBSET Positions) \X (0..MaxBlocks) : q[2] <= Cardinality(q[1])}}
QuorumOpts == ThresholdOpts \cup IndexOpts

\* The index arguments of ValidateMulti: none, Any, one or two positions.
IdxArgs ==
    {<<>>, <<AnyIdx>>}
    \cup {<<a>> : a \in Positions}
    \cup {<<a, b>> : <<a, b>> \in {p \in Positions \X Positions : p[1] # p[2]}}

\* The document the verification runs parse: the one last serialized.
VParseInputs == IF wire.doc # NoDoc THEN {wire.doc} ELSE {}

(***************************************************************************)
(* The verification specification: a JWS is built and signed, perhaps      *)
(* parsed back, and handed to the verifiers.                               *)
(***************************************************************************)
NextVerify ==
    \/ Resume
    \/ \E ms \in VNewMethodLists : DoNew("P1", ms)
    \/ DoGeneral(<<"K1">>, Nonces)
    \/ \E d \in VParseInputs : DoParseGeneral(d)
    \/ DoParseCheck
    \/ DoParseAssign
    \/ \E k \in VerifyKeys, m \in VerifyMethods : DoVerify(k, m)
    \/ /\ Idle /\ j.live
       /\ \E ks \in VKeyLists, ms \in VMethodLists :
             \/ DoVerifyMulti(ks, ms, TRUE, ZeroOpts)
             \/ \E o \in QuorumOpts : DoVerifyMulti(ks, ms, FALSE, o)
    \/ /\ Idle /\ j.live
       /\ \E fn \in VerifyCallbacks, ms \in VMethodLists :
             \/ DoVerifyCallback(fn, ms, TRUE, ZeroOpts)
             \/ \E o \in QuorumOpts : DoVerifyCallback(fn, ms, FALSE, o)
    \/ \E x \in Positions : DoOptsAppend(x)
    \/ \E x \in Positions : DoOptsNeeds(x)
    \/ DoOptsInc
    \/ DoVerifyMultiAgain
    \/ /\ Idle /\ j.live
       /\ \E ks \in VKeyLists, ms \in VMethodLists, idx \in IdxArgs :
             DoValidateMulti(ks, ms, idx)

SpecVerify == Init /\ [][NextVerify]_vars


(***************************************************************************)
(* The registry under concurrent use.  Each goroutine is in one call of    *)
(* GetSigningMethod, RegisterSigningMethod or RemoveSigningMethod and      *)
(* takes one step of it at a time:                                         *)
(*   "rlock"    at mu.RLock()                                              *)
(*   "read"     inside, at signingMethods[alg]                             *)
(*   "runlock"  inside, at the deferred mu.RUnlock()                       *)
(*   "check"    RegisterSigningMethod, at the tests of what it looked up   *)
(*   "lock"     at mu.Lock(), before it has the write side                 *)
(*   "drain"    in mu.Lock(), write side taken, waiting for the readers    *)
(*   "write"    inside, at the map write or delete                         *)
(*   "unlock"   inside, at mu.Unlock()                                     *)
(* A goroutine whose call panicked recovers and may call again.            *)
(***************************************************************************)
\* sync.RWMutex: a reader enters while no goroutine has the write side; a
\* pending Lock has taken the write side and keeps new readers out.
RLockFree(m) == m.w = 0
LockFree(m) == m.w = 0
\* A Lock that does not wait for the readers inside.
Drained_Always(m) == TRUE
Drained(m) == m.r = {}

\* sm.Hasher().Available(): the hashes of the modelled methods are linked in.
HasherAvailable(sm) == sm \in Methods

\* A goroutine at the start of a call.
Enter(op, sm, alg, pc) ==
    [op |-> op, sm |-> sm, alg |-> alg, pc |-> pc, seen |-> NilStr, wrote |-> FALSE,
     out |-> "none"]

\* go GetSigningMethod(alg)
CallGet(t, alg) ==
    /\ calls[t].pc = "idle"
    /\ calls' = [calls EXCEPT ![t] = Enter("GetSigningMethod", NilStr, alg, "rlock")]
    /\ UNCHANGED <<jwsvars, jwtvars, signingMethods, mu, winners>>

\* go RegisterSigningMethod(sm): it starts with GetSigningMethod(sm.Alg()).
CallRegister(t, sm) ==
    /\ calls[t].pc = "idle"
    /\ calls' = [calls EXCEPT ![t] = Enter("RegisterSigningMethod", sm, Alg(sm), "rlock")]
    /\ UNCHANGED <<jwsvars, jwtvars, signingMethods, mu, winners>>

\* go RemoveSigningMethod(sm)
CallRemove(t, sm) ==
    /\ calls[t].pc = "idle"
    /\ calls' = [calls EXCEPT ![t] = Enter("RemoveSigningMethod", sm, Alg(sm), "lock")]
    /\ UNCHANGED <<jwsvars, jwtvars, signingMethods, mu, winners>>

\* mu.RLock()
RLock(t) ==
    /\ calls[t].pc = "rlock"
    /\ RLockFree(mu)
    /\ mu' = [mu EXCEPT !.r = @ \cup {t}]
    /\ calls' = [calls EXCEPT ![t].pc = "read"]
    /\ UNCHANGED <<jwsvars, jwtvars, signingMethods, winners>>

\* signingMethods[alg]
ReadMap(t) ==
    /\ calls[t].pc = "read"
    /\ calls' = [calls EXCEPT ![t].seen = GetSigningMethod(signingMethods, calls[t].alg),
                              ![t].pc = "runlock"]
    /\ UNCHANGED <<jwsvars, jwtvars, signingMethods, mu, winners>>

\* The deferred mu.RUnlock(); GetSigningMethod returns what it read.
RUnlock(t) ==
    /\ calls[t].pc = "runlock"
    /\ mu' = [mu EXCEPT !.r = @ \ {t}]
    /\ calls' = IF calls[t].op = "GetSigningMethod"
                THEN [calls EXCEPT ![t].pc = "idle", ![t].out = calls[t].seen]
                ELSE [calls EXCEPT ![t].pc = "check"]
    /\ UNCHANGED <<jwsvars, jwtvars, signingMethods, winners>>

\* RegisterSigningMethod's two tests: panic on a name the lookup found, and
\* on a hash that is not linked in.
CheckDuplicate(t) ==
    /\ calls[t].pc = "check"
    /\ calls' = IF calls[t].seen # NilStr \/ ~HasherAvailable(calls[t].sm)
                THEN [calls EXCEPT ![t].pc = "idle", ![t].out = "panic"]
                ELSE [calls EXCEPT ![t].pc = "lock"]
    /\ UNCHANGED <<jwsvars, jwtvars, signingMethods, mu, winners>>

\* mu.Lock(), first half: take the write side.
Lock(t) ==
    /\ calls[t].pc = "lock"
    /\ LockFree(mu)
    /\ mu' = [mu EXCEPT !.w = t]
    /\ calls' = [calls EXCEPT ![t].pc = "drain"]
    /\ UNCHANGED <<jwsvars, jwtvars, signingMethods, winners>>

\* mu.Lock(), second half: wait until the readers inside have left.
Drain(t) ==
    /\ calls[t].pc = "drain"
    /\ Drained(mu)
    /\ calls' = [calls EXCEPT ![t].pc = "write"]
    /\ UNCHANGED <<jwsvars, jwtvars, signingMethods, mu, winners>>

\* signingMethods[sm.Alg()] = sm, or delete(signingMethods, sm.Alg())
WriteMap(t) ==
    /\ calls[t].pc = "write"
    /\ IF calls[t].op = "RegisterSigningMethod"
       THEN /\ signingMethods' = [signingMethods EXCEPT ![calls[t].alg] = calls[t].sm]
            /\ winners' = [winners EXCEPT ![calls[t].alg] = @ \cup {t}]
       ELSE /\ signingMethods' = RemoveSigningMethod(signingMethods, calls[t].sm)
            /\ winners' = [winners EXCEPT ![calls[t].alg] = {}]
    /\ calls' = [calls EXCEPT ![t].pc = "unlock", ![t].wrote = TRUE]
    /\ UNCHANGED <<jwsvars, jwtvars, mu>>

\* mu.Unlock(); the call returns.
Unlock(t) ==
    /\ calls[t].pc = "unlock"
    /\ mu' = [mu EXCEPT !.w = 0]
    /\ calls' = [calls EXCEPT ![t].pc = "idle", ![t].out = "ok"]
    /\ UNCHANGED <<jwsvars, jwtvars, signingMethods, winners>>

\* The steps goroutine t takes inside a call.
Step(t) ==
    \/ RLock(t)
    \/ ReadMap(t)
    \/ RUnlock(t)
    \/ CheckDuplicate(t)
    \/ Lock(t)
    \/ Drain(t)
    \/ WriteMap(t)
    \/ Unlock(t)

NextRegistry ==
    \/ \E t \in Threads, a \in Algs : CallGet(t, a)
    \/ \E t \in Threads, sm \in Methods : CallRegister(t, sm)
    \/ \E t \in Threads, sm \in Methods : CallRemove(t, sm)
    \/ \E t \in Threads : RLock(t)
    \/ \E t \in Threads : ReadMap(t)
    \/ \E t \in Threads : RUnlock(t)
    \/ \E t \in Threads : CheckDuplicate(t)
    \/ \E t \in Threads : Lock(t)
    \/ \E t \in Threads : Drain(t)
    \/ \E t \in Threads : WriteMap(t)
    \/ \E t \in Threads : Unlock(t)

SpecRegistry == Init /\ [][NextRegistry]_vars

\* The scheduler runs every goroutine that can take a step.  A goroutine
\* waiting at RLock or Lock is admitted if the lock is free again and again:
\* Unlock admits the waiting readers, and sync.Mutex hands the write side
\* to a writer that has waited long.
SpecRegistryLive ==
    /\ SpecRegistry
    /\ \A t \in Threads :
          /\ WF_vars(Step(t))
          /\ SF_vars(RLock(t))
          /\ SF_vars(Lock(t))


(***************************************************************************)
(* Claims validation on its own: every claim set, clock and leeway of the  *)
(* input sets, one call at a time.                                         *)
(***************************************************************************)
\* Times: the ordinary ones, one before the epoch, and the two ends of int64.
Times == (-1..MaxTime) \cup {MinInt64, MaxInt64}
Leeways == {-1, 0, 1, 5}
ClaimEntries == {Absent} \cup {Int64(v) : v \in Times} \cup {Float64(v) : v \in Times}
ClaimSets == [exp : ClaimEntries, nbf : ClaimEntries]

DoClaimsValidate(c, now, expLeeway, nbfLeeway) ==
    /\ cv.op = "none"
    /\ cv' = [op |-> "Validate", c |-> c, now |-> now, expLeeway |-> expLeeway,
              nbfLeeway |-> nbfLeeway,
              err |-> ClaimsValidate(c, now, expLeeway, nbfLeeway)]
    /\ UNCHANGED <<jwsvars, signingMethods, regvars, tok, vr>>

\* The caller takes the result.
ResumeClaims ==
    /\ cv.op # "none"
    /\ cv' = NoValidate
    /\ UNCHANGED <<jwsvars, signingMethods, regvars, tok, vr>>

NextClaims ==
    \/ /\ cv.op = "none"
       /\ \E c \in ClaimSets, now \in Times, el \in Leeways, nl \in Leeways :
             DoClaimsValidate(c, now, el, nl)
    \/ ResumeClaims

SpecClaims == Init /\ [][NextClaims]_vars


(***************************************************************************)
(* JWTs: NewJWT, Serialize, ParseJWT and JWS.Verify, which takes its three *)
(* steps one at a time:                                                    *)
(*   "sig"     at j.Validate(key, m)                                       *)
(*   "fn"      at the ValidateFunc of the options                          *)
(*   "claims"  at Claims.Validate(time.Now().Unix(), p.EXP, p.NBF)         *)
(*   "done"    returned                                                    *)
(***************************************************************************)
JWTMethods == {"M1", "M2"}
JWTClaimSets == [exp : {Absent, Int64(2)}, nbf : {Absent, Int64(2)}]
JWTOpts == [EXP : {0, 1}, NBF : {0}, Fn : {NilStr, "accepts", "rejects", "removes", "sets"}]
\* The values the caller stores in a claim set.
JWTClaimValues == {Int64(2), Float64(2)}
\* o ...jwt.Opts: none given, or one.
JWTOptArgs == {<<>>} \cup {<<o>> : o \in JWTOpts}
Clock == {1, 3}

JWTIdle == vr.pc = "idle"

\* NewJWT(claims, method)
DoNewJWT(claims, method) ==
    /\ JWTIdle
    /\ tok' = NewJWT(claims, method)
    /\ UNCHANGED <<jwsvars, signingMethods, regvars, cv, vr>>

\* New(content, method): a JWS that is no JWT.
DoNewJWS(method) ==
    /\ JWTIdle
    /\ tok' = [NoToken EXCEPT !.j = New("P2", <<method>>)]
    /\ UNCHANGED <<jwsvars, signingMethods, regvars, cv, vr>>

\* (j *JWS) Serialize(key): Compact for a JWT, ErrIsNotJWT otherwise.
DoSerialize(key, nonces) ==
    /\ JWTIdle
    /\ tok.j.live
    /\ tok.j.isJWT
    /\ \E ns \in NonceChoices(tok.j, nonces) : tok' = Serialize(tok, key, ns).tok
    /\ UNCHANGED <<jwsvars, signingMethods, regvars, cv, vr>>

\* ParseJWT(encoded) on the token Serialize made.
DoParseJWT ==
    /\ JWTIdle
    /\ tok.doc # NoDoc
    /\ LET r == ParseJWT(signingMethods, tok.doc, tok.dclaims, tok.isClaims) IN
         tok' = IF r.err = NilStr THEN r.tok ELSE tok
    /\ UNCHANGED <<jwsvars, signingMethods, regvars, cv, vr>>

\* j.Claims() of a JWT returns the live claim set; the caller changes it.
\* Claims() is nil when j is no JWT or its payload is no claim set.
HasClaims == JWTIdle /\ tok.j.live /\ tok.j.isJWT /\ tok.isClaims

\* j.Claims().Set(key, val)
DoClaimsSet(key, val) ==
    /\ HasClaims
    /\ tok' = [tok EXCEPT !.claims = ClaimsSet(@, key, val)]
    /\ UNCHANGED <<jwsvars, signingMethods, regvars, cv, vr>>

\* j.Claims().Del(key)
DoClaimsDel(key) ==
    /\ HasClaims
    /\ tok' = [tok EXCEPT !.claims = ClaimsDel(@, key)]
    /\ UNCHANGED <<jwsvars, signingMethods, regvars, cv, vr>>

\* j.Claims().SetExpiration(v)
DoSetExpiration(v) ==
    /\ HasClaims
    /\ tok' = [tok EXCEPT !.claims = SetExpiration(@, v)]
    /\ UNCHANGED <<jwsvars, signingMethods, regvars, cv, vr>>

\* j.Claims().SetNotBefore(v)
DoSetNotBefore(v) ==
    /\ HasClaims
    /\ tok' = [tok EXCEPT !.claims = SetNotBefore(@, v)]
    /\ UNCHANGED <<jwsvars, signingMethods, regvars, cv, vr>>

\* j.Claims().RemoveExpiration()
DoRemoveExpiration ==
    /\ HasClaims
    /\ tok' = [tok EXCEPT !.claims = RemoveExpiration(@)]
    /\ UNCHANGED <<jwsvars, signingMethods, regvars, cv, vr>>

\* j.Claims().RemoveNotBefore()
DoRemoveNotBefore ==
    /\ HasClaims
    /\ tok' = [tok EXCEPT !.claims = RemoveNotBefore(@)]
    /\ UNCHANGED <<jwsvars, signingMethods, regvars, cv, vr>>

\* (j *JWS) Verify(key, m, o...): the call starts.
CallJWTVerify(key, m, o) ==
    /\ JWTIdle
    /\ tok.j.live
    /\ vr' = [NoVerify EXCEPT !.pc = "sig", !.key = key, !.m = m,
                              !.o = IF Len(o) > 0 THEN o[1] ELSE ZeroJWTOpts]
    /\ UNCHANGED <<jwsvars, signingMethods, regvars, cv, tok>>

\* if j.isJWT { if err := j.Validate(key, m) ... c, ok := j.payload.v.(Claims)
StepSignature ==
    /\ vr.pc = "sig"
    /\ LET r == VerifySignature(tok, vr.key, vr.m) IN
         vr' = [vr EXCEPT !.pc = r.pc, !.sigerr = r.sigerr, !.err = r.err,
                          !.trace = IF r.ran THEN Append(@, "Validate") ELSE @]
    /\ UNCHANGED <<jwsvars, signingMethods, regvars, cv, tok>>

\* if p.Fn != nil { if err := p.Fn(jwt.Claims(c)) ...
StepFn ==
    /\ vr.pc = "fn"
    /\ LET r == VerifyFn(vr.o.Fn) IN
         vr' = [vr EXCEPT !.pc = r.pc, !.fnerr = r.err, !.err = r.err,
                          !.trace = IF r.ran THEN Append(@, "Fn") ELSE @]
    /\ tok' = [tok EXCEPT !.claims = FnClaims(vr.o.Fn, @)]
    /\ UNCHANGED <<jwsvars, signingMethods, regvars, cv>>

\* return jwt.Claims(c).Validate(time.Now().Unix(), p.EXP, p.NBF)
StepClaims(now) ==
    /\ vr.pc = "claims"
    /\ vr' = [vr EXCEPT !.pc = "done", !.now = now,
                        !.err = ClaimsValidate(tok.claims, now, vr.o.EXP, vr.o.NBF),
                        !.trace = Append(@, "ClaimsValidate")]
    /\ UNCHANGED <<jwsvars, signingMethods, regvars, cv, tok>>

\* The caller takes the result.
ResumeJWT ==
    /\ vr.pc = "done"
    /\ vr' = NoVerify
    /\ UNCHANGED <<jwsvars, signingMethods, regvars, cv, tok>>

NextJWT ==
    \/ \E c \in JWTClaimSets, m \in JWTMethods : DoNewJWT(c, m)
    \/ \E m \in JWTMethods : DoNewJWS(m)
    \/ \E k \in Keys : DoSerialize(k, Nonces)
    \/ DoParseJWT
    \/ \E key \in ClaimKeys, val \in JWTClaimValues : DoClaimsSet(key, val)
    \/ \E key \in ClaimKeys : DoClaimsDel(key)
    \/ DoSetExpiration(2)
    \/ DoSetNotBefore(2)
    \/ DoRemoveExpiration
    \/ DoRemoveNotBefore
    \/ \E k \in Keys, m \in JWTMethods, o \in JWTOptArgs : CallJWTVerify(k, m, o)
    \/ StepSignature
    \/ StepFn
    \/ \E now \in Clock : StepClaims(now)
    \/ ResumeJWT

SpecJWT == Init /\ [][NextJWT]_vars


(***************************************************************************)
(* Properties of verification.                                             *)
(***************************************************************************)
\* VerifyMulti has returned from its loop over the blocks: as many methods
\* as blocks, keys of arity 1 or that many.
MultiRan ==
    /\ ret.op = "VerifyMulti"
    /\ Len(ret.methods) = Len(j.sb)
    /\ ~BadKeyArity(Len(ret.keys), Len(j.sb))

\* The positions an index list names.
Listed(ints) == {ints.s[x] : x \in 1..Len(ints.s)}

\* C1: VerifyMulti with options that carry only a threshold Number = N,
\* 1 <= N <= n, on a JWS of n blocks succeeds if and only if at least N
\* blocks verify.
C1_ThresholdIff ==
    (/\ MultiRan
     /\ ~ret.onil /\ ret.o.Indices.nil
     /\ ret.o.Number >= 1 /\ ret.o.Number <= Len(j.sb))
    => ((ret.err = NilStr) <=> (Cardinality(ret.ok) >= ret.o.Number))

\* C2: VerifyMulti with options that list required positions of the JWS in
\* ascending order, as the caller built them (no Needs call has moved their
\* cursor), succeeds if and only if every listed position verifies, whatever
\* the positions not listed do.
C2_IndicesIff ==
    (/\ MultiRan
     /\ ~ret.onil /\ ~ret.o.Indices.nil /\ ret.o.Number = 0 /\ ret.o.ptr = 0
     /\ Listed(ret.o.Indices) # {}
     /\ Listed(ret.o.Indices) \subseteq 0..(Len(j.sb) - 1))
    => ((ret.err = NilStr) <=> (Listed(ret.o.Indices) \subseteq ret.ok))

\* C3: Verify(key, method) on a JWS whose first block is bound to another
\* method returns the mismatch error without invoking a method's Verify, and
\* on a JWS with no blocks it returns an error without verifying.
C3_VerifyMismatch ==
    ret.op = "Verify" =>
        /\ (Len(j.sb) = 0 => ret.err = "ErrCannotValidate" /\ ret.called = {})
        /\ (Len(j.sb) >= 1 /\ j.sb[1].method # ret.methods[1]
               => ret.err = "ErrMismatchedAlgorithms" /\ ret.called = {})

\* The case of C3: the supplied method is not the bound one, and its Verify
\* would accept the block's signature under the supplied key.
C3_Witness ==
    /\ ret.op = "Verify"
    /\ Len(j.sb) >= 1
    /\ j.sb[1].method # ret.methods[1]
    /\ MethodVerify(ret.methods[1], format(j.sb[1].Protected, j.plcache),
                    j.sb[1].Signature, ret.keys[1]) = NilStr
    /\ ret.err = "ErrMismatchedAlgorithms"

\* C5: when VerifyMulti or ValidateMulti returns success, at least one block
\* of the JWS verified; a JWS with no blocks is never accepted.
C5_SuccessNeedsAVerifiedBlock ==
    (ret.op \in {"VerifyMulti", "ValidateMulti"} /\ ret.err = NilStr)
    => ret.ok # {}


(***************************************************************************)
(* Properties of the round trip and of parsing.                            *)
(***************************************************************************)
Registered(m) == GetSigningMethod(signingMethods, Alg(m)) = m

\* The reads of the parse that returned, by entry: the registry as the
\* look-up of entry x found it and the toggle as the header check of entry
\* x found it; for an entry the parse did not come to, as they are now.
PadReads(seq, now) == [x \in 1..MaxBlocks |-> IF x <= Len(seq) THEN seq[x] ELSE now]
SeenRegs == PadReads(ret.regs, signingMethods)
SeenDupes == PadReads(ret.dupes, IgnoreDupes)

\* Verify was called on the object a parser made of the document that was
\* serialized from New(payload, method), with the key and the method of that
\* serialization, the method being the registered one of its algorithm.
RoundTripVerify ==
    /\ ret.op = "Verify"
    /\ origin = "rt" /\ wire.stale
    /\ Len(wire.methods) = 1
    /\ Registered(wire.methods[1])
    /\ ret.keys = <<wire.keys[1]>>
    /\ ret.methods = wire.methods

\* C4: for each of the three forms, serializing New(payload, method) with a
\* key, parsing the produced document and verifying with the same key and
\* method succeeds.
C4_RoundTripVerifies == RoundTripVerify => ret.err = NilStr

\* The entries a parser reads from a document, in input order.
ParsedEntries(op, doc) ==
    IF doc.form = "compact" THEN <<doc.inline>>
    ELSE IF op = "ParseFlat" \/ (op = "Parse" /\ ~doc.hasSigs) THEN <<doc.inline>>
    ELSE doc.sigs

\* The header maps an entry's segments decode to.
EntryProtected(e) == ProtectedUnmarshalJSON(e.Protected).h
EntryUnprotected(e) == HeaderUnmarshalJSON(NilHeader, e.Unprotected).h
EntryAlg(e) == HeaderGet(EntryProtected(e), "alg")

\* An entry whose alg is missing, is not a string, or names no method of
\* the registry reg.
BadAlg(reg, e) ==
    ~IsString(EntryAlg(e)) \/ GetSigningMethod(reg, EntryAlg(e)) = NilStr

\* An entry with a key in both of its headers.
HasDupe(e) == \E a \in EntryProtected(e).kv : HeaderHas(EntryUnprotected(e), a[1])

\* An entry that passes the checks other than the duplicate check: both
\* segments decode, and its alg names a method of the registry reg.
OtherwiseFine(reg, e) ==
    /\ e.Protected.enc # "bad" /\ e.Unprotected.enc # "bad"
    /\ ~BadAlg(reg, e)

\* A flat or general parse of a JSON document whose payload decodes and whose
\* entries are otherwise fine, one of them having a duplicate key.
DupeParse ==
    /\ ret.op \in {"ParseFlat", "ParseGeneral", "Parse"}
    /\ JSONUnmarshals(ret.doc)
    /\ PayloadUnmarshalJSON(ret.doc.payload).err = NilStr
    /\ \A x \in DOMAIN ParsedEntries(ret.op, ret.doc) :
          OtherwiseFine(SeenRegs[x], ParsedEntries(ret.op, ret.doc)[x])
    /\ \E x \in DOMAIN ParsedEntries(ret.op, ret.doc) :
          HasDupe(ParsedEntries(ret.op, ret.doc)[x])

\* C6: in flat and general parsing an entry with a key in both headers that
\* passes every other check fails the parse with the duplicate-header error
\* when IgnoreDupes is off, and is accepted when it is on.  The toggle is
\* what the header check of the entry reads.
C6_DuplicateHeaders ==
    DupeParse =>
        LET es == ParsedEntries(ret.op, ret.doc) IN
        /\ (\E x \in DOMAIN es : HasDupe(es[x]) /\ ~SeenDupes[x])
              => (ret.err = "ErrDuplicateHeaderParameter" /\ ~ret.got)
        /\ (\A x \in DOMAIN es : HasDupe(es[x]) => SeenDupes[x])
              => (ret.err = NilStr /\ ret.got)

\* The cases of C6: a two-entry document refused for its second entry, and
\* the toggle accepting a duplicate.
C6_Witness ==
    /\ DupeParse
    /\ \/ (~SeenDupes[2] /\ ret.op = "ParseGeneral" /\ Len(ret.doc.sigs) = 2
             /\ ~HasDupe(ret.doc.sigs[1]) /\ ret.err = "ErrDuplicateHeaderParameter")
       \/ (SeenDupes[1] /\ HasDupe(ParsedEntries(ret.op, ret.doc)[1])
             /\ ret.got /\ ret.err = NilStr)

\* C7: every parse path binds each block, in input order, to the method the
\* registry holds under the entry's protected alg when the parse looks it
\* up; an entry whose alg is missing, not a string or not registered makes
\* the parse return an error and no JWS.
C7_ParseBindsRegistryMethod ==
    ret.op \in {"ParseCompact", "ParseFlat", "ParseGeneral", "Parse"} =>
        LET es == ParsedEntries(ret.op, ret.doc) IN
        /\ ret.got =>
              /\ Len(j.sb) = Len(es)
              /\ \A x \in DOMAIN es :
                    /\ j.sb[x].method = GetSigningMethod(SeenRegs[x], EntryAlg(es[x]))
                    /\ j.sb[x].method # NilStr
                    /\ j.sb[x].Signature = es[x].Signature
        /\ (\E x \in DOMAIN es : BadAlg(SeenRegs[x], es[x]))
              => (~ret.got /\ ret.err # NilStr)

\* The case of C7: two entries of different algorithms bound in input order.
C7_Witness ==
    /\ ret.op \in {"ParseGeneral", "Parse"}
    /\ ret.got
    /\ Len(j.sb) = 2
    /\ j.sb[1].method = "M1" /\ j.sb[2].method = "M2"
    /\ EntryAlg(ret.doc.sigs[1]) = "HS256" /\ EntryAlg(ret.doc.sigs[2]) = "ES256"


(***************************************************************************)
(* Properties of the object's state and of its caches.                     *)
(***************************************************************************)
\* C8: in every reachable state each block's protected alg equals the name
\* of the method bound to the block.
C8_AlgNamesBoundMethod ==
    j.live =>
        \A x \in DOMAIN j.sb :
            HeaderGet(j.sb[x].protected, "alg") = Alg(j.sb[x].method)

\* C9: in every state of an object built by New, whatever setters and
\* serializers were called on it, a cache marked clean equals the encoding
\* of the value it caches.
C9_CleanCachesAreCurrent ==
    (j.live /\ origin \in {"new", "mod"}) =>
        /\ j.clean => j.plcache = PayloadBase64(j.payload)
        /\ \A x \in DOMAIN j.sb :
              j.sb[x].clean =>
                  /\ j.sb[x].Protected = ProtectedBase64(j.sb[x].protected)
                  /\ j.sb[x].Unprotected = HeaderBase64(j.sb[x].unprotected)

\* A serializer returned a document for the second time running: the same
\* serializer, the same keys, and no setter, parser or New in between.
SerializedAgain ==
    /\ ret.op \in {"Compact", "Flat", "General"}
    /\ ret.again
    /\ ret.err = NilStr

Deterministic == \A x \in DOMAIN j.sb : ~Randomized(j.sb[x].method)

\* C10 as stated: the second serialization invokes no method's Sign.
C10_NoSignAgain == SerializedAgain => ret.nsign = 0

\* C10, amended: the second serialization encodes nothing again, but invokes
\* the Sign of every block's method once more, over the same signing input
\* and key; when no bound method is randomized it returns the same document.
C10_ResignsOverCachedInput ==
    SerializedAgain =>
        /\ ret.nenc = 0
        /\ ret.nsign = Len(j.sb)
        /\ ret.out.payload = ret.doc.payload
        /\ \A x \in DOMAIN j.sb :
              /\ j.sb[x].Signature.in = format(j.sb[x].Protected, j.plcache)
              /\ j.sb[x].Signature.key = SpreadKeys(ret.keys, Len(j.sb))[x]
        /\ Deterministic => ret.out = ret.doc

\* The cases of C10: a second General over two blocks, one of a randomized
\* method, whose document differs from the first.
C10_Witness ==
    /\ SerializedAgain
    /\ ret.op = "General"
    /\ Len(j.sb) = 2
    /\ ret.nsign = 2
    /\ ~Deterministic
    /\ ret.out # ret.doc


(***************************************************************************)
(* Properties of the arity checks.                                         *)
(***************************************************************************)
\* C11: General on a JWS of n blocks accepts one key, used for every block,
\* or n keys, key i used for block i; with no key, or with k > 1 keys where
\* k differs from n, it returns the not-enough-keys error and signs no block.
C11_SignKeyArity ==
    ret.op = "General" =>
        LET n == Len(j.sb)
            k == Len(ret.keys)
        IN /\ (k = 0 \/ (k > 1 /\ k # n))
                => (ret.err = "ErrNotEnoughKeys" /\ ret.nsign = 0)
           /\ (k = 1 \/ (k > 1 /\ k = n))
                => /\ ret.err # "ErrNotEnoughKeys"
                   /\ ret.err = NilStr =>
                         /\ ret.nsign = n
                         /\ \A x \in 1..n :
                               j.sb[x].Signature.key =
                                   (IF k = 1 THEN ret.keys[1] ELSE ret.keys[x])

\* The case of C11: two blocks signed with two different keys, in order.
C11_Witness ==
    /\ ret.op = "General"
    /\ ret.err = NilStr
    /\ Len(j.sb) = 2
    /\ ret.keys = <<"K1", "K2">>
    /\ j.sb[1].Signature.key = "K1"
    /\ j.sb[2].Signature.key = "K2"

\* C12: VerifyMulti returns an arity error, without invoking any method's
\* Verify and without checking part of the blocks, whenever the number of
\* methods differs from the number of blocks or the number of keys is
\* neither 1 nor the number of blocks; the caller's options are untouched.
C12_VerifyMultiArity ==
    ret.op = "VerifyMulti" =>
        LET n == Len(j.sb)
            k == Len(ret.keys)
            m == Len(ret.methods)
        IN /\ m # n => ret.err = "ErrNotEnoughMethods"
           /\ (m = n /\ k # 1 /\ k # n) => ret.err = "ErrNotEnoughKeys"
           /\ (m # n \/ (k # 1 /\ k # n))
                => /\ ret.called = {}
                   /\ ret.ok = {}
                   /\ ret.oafter = ret.o

\* The case of C12: two keys against three blocks, with three methods.
C12_Witness ==
    /\ ret.op = "VerifyMulti"
    /\ Len(j.sb) = 3
    /\ Len(ret.methods) = 3
    /\ Len(ret.keys) = 2
    /\ ret.err = "ErrNotEnoughKeys"
    /\ ret.called = {}


(***************************************************************************)
(* Properties of the registry under concurrent use.                        *)
(***************************************************************************)
\* Goroutine t has returned from a call of op.
Returned(t, op) == calls[t].op = op /\ calls[t].pc = "idle"

\* C13: a RegisterSigningMethod that finds its name in the registry panics
\* and does not write the map, one that panics found its name there, and of
\* the concurrent RegisterSigningMethod calls for one name that was not
\* registered, with no removal in between, exactly one completes normally:
\* never two.
C13_RegisterOnce ==
    /\ \A t \in Threads :
          Returned(t, "RegisterSigningMethod") =>
              /\ (calls[t].seen # NilStr) <=> (calls[t].out = "panic")
              /\ (calls[t].out = "panic") => ~calls[t].wrote
              /\ (calls[t].out = "ok") <=> calls[t].wrote
    /\ \A a \in Algs : Cardinality(winners[a]) <= 1

\* Goroutine t is inside the read side, or inside the write side.
Reading(t) == calls[t].pc \in {"read", "runlock"}
Writing(t) == calls[t].pc \in {"write", "unlock"}
Busy(t) == calls[t].pc # "idle"

\* A writer is inside alone; who is inside holds the lock, and who is not
\* inside, an aborted RegisterSigningMethod included, holds none.
LockSafe ==
    \A t \in Threads :
        /\ Writing(t) => \A u \in Threads \ {t} : ~Reading(u) /\ ~Writing(u)
        /\ Reading(t) <=> t \in mu.r
        /\ Writing(t) => mu.w = t
        /\ mu.w = t => calls[t].pc \in {"drain", "write", "unlock"}
        /\ ~Busy(t) => (mu.w # t /\ t \notin mu.r)

\* C14: in every interleaving of the three registry calls a writer touches
\* the map only while no reader and no other writer is inside, every call
\* releases the lock it took, an aborted RegisterSigningMethod holds none,
\* and every call returns.
C14_LockDiscipline ==
    /\ []LockSafe
    /\ \A t \in Threads : Busy(t) ~> ~Busy(t)

\* The case of C14: two goroutines inside the read side together.
C14_Witness ==
    \E t, u \in Threads :
        /\ t # u
        /\ Reading(t)
        /\ Reading(u)


(***************************************************************************)
(* Properties of the claims validation.                                    *)
(***************************************************************************)
Validated == cv.op = "Validate"

\* C15: Validate on a claim set with an exp claim returns the expired error
\* exactly when now > exp + expLeeway.
C15_ExpiredIff ==
    (Validated /\ Has(cv.c.exp)) =>
        ((cv.err = "ErrTokenIsExpired") <=> (cv.now > cv.c.exp.v + cv.expLeeway))

\* C16: Validate on a claim set with an nbf claim whose exp claim does not
\* fail returns the not-yet-valid error exactly when now <= nbf - nbfLeeway.
C16_NotYetValidIff ==
    (Validated /\ Has(cv.c.nbf) /\ cv.err # "ErrTokenIsExpired") =>
        ((cv.err = "ErrTokenNotYetValid") <=> (cv.now <= cv.c.nbf.v - cv.nbfLeeway))

\* The window check as the specification words it.
WindowPasses(claim, leeway, now) == ~(claim + leeway < now) \/ ~(claim - leeway < now)

\* C17: the check on a present exp claim and on a present nbf claim passes
\* if and only if (claim + leeway < now) is false or (claim - leeway < now)
\* is false, and Validate rejects in exactly the remaining case.
C17_WindowCheck ==
    Validated =>
        /\ Has(cv.c.exp) =>
              ((cv.err = "ErrTokenIsExpired")
                  <=> ~WindowPasses(cv.c.exp.v, cv.expLeeway, cv.now))
        /\ (Has(cv.c.nbf) /\ cv.err # "ErrTokenIsExpired") =>
              ((cv.err = "ErrTokenNotYetValid")
                  <=> ~WindowPasses(cv.c.nbf.v, cv.nbfLeeway, cv.now))

\* C18: the expiration check is applied exactly when the claim set has an
\* exp entry and the not-before check exactly when it has an nbf entry,
\* whatever the representation of the number: an absent claim never gives
\* its error, and a present claim that fails its check is never let pass.
C18_AppliedIffPresent ==
    Validated =>
        /\ ~Has(cv.c.exp) => cv.err # "ErrTokenIsExpired"
        /\ ~Has(cv.c.nbf) => cv.err # "ErrTokenNotYetValid"
        /\ Has(cv.c.exp) =>
              ((cv.err = "ErrTokenIsExpired")
                  <=> ~within(cv.c.exp.v, cv.expLeeway, cv.now))
        /\ (Has(cv.c.nbf) /\ cv.err # "ErrTokenIsExpired") =>
              ((cv.err = "ErrTokenNotYetValid")
                  <=> ~within(cv.c.nbf.v, cv.nbfLeeway, cv.now))

\* The Verify in progress has taken step x.
Ran(x) == \E i \in 1..Len(vr.trace) : vr.trace[i] = x

\* C19: JWS.Verify on a JWT validates the signature first, then calls the
\* ValidateFunc if one is given, then validates the claims.  The
\* ValidateFunc is not called when signature validation fails; its error
\* ends the verification with that error; and when it returns nil the
\* claim validation follows and its result is what Verify returns, as it
\* is without a ValidateFunc.
C19_VerifyOrder ==
    /\ vr.trace \in {<<>>, <<"Validate">>, <<"Validate", "Fn">>,
                      <<"Validate", "ClaimsValidate">>,
                      <<"Validate", "Fn", "ClaimsValidate">>}
    /\ (vr.pc = "done" /\ tok.j.isJWT) =>
          /\ Ran("Validate")
          /\ vr.sigerr # NilStr =>
                /\ ~Ran("Fn")
                /\ ~Ran("ClaimsValidate")
                /\ vr.err = vr.sigerr
          /\ (vr.sigerr = NilStr /\ tok.isClaims) =>
                /\ Ran("Fn") <=> (vr.o.Fn # NilStr)
                /\ vr.fnerr # NilStr =>
                      /\ ~Ran("ClaimsValidate")
                      /\ vr.err = vr.fnerr
                /\ vr.fnerr = NilStr =>
                      /\ Ran("ClaimsValidate")
                      /\ vr.err = ClaimsValidate(tok.claims, vr.now, vr.o.EXP, vr.o.NBF)

\* The case of C19: the signature validates, the ValidateFunc accepts, and
\* the claim validation that follows refuses the token.
C19_Witness ==
    /\ vr.pc = "done"
    /\ vr.trace = <<"Validate", "Fn", "ClaimsValidate">>
    /\ vr.o.Fn = "accepts"
    /\ vr.err \in {"ErrTokenIsExpired", "ErrTokenNotYetValid"}


(***************************************************************************)
(* Properties of Parse.                                                    *)
(***************************************************************************)
\* The form-specific parser the input selects: compact for bytes that do
\* not decode as JSON, general when the signatures member is there and not
\* null, flat otherwise.
SelectedParser(doc) ==
    IF ~JSONUnmarshals(doc) THEN "ParseCompact"
    ELSE IF doc.hasSigs THEN "ParseGeneral"
    ELSE "ParseFlat"

ParseWith(name, regs, dupes, doc) ==
    IF name = "ParseCompact" THEN ParseCompact(regs[1], doc)
    ELSE IF name = "ParseGeneral" THEN ParseGeneral(regs, dupes, doc, "none")
    ELSE ParseFlat(regs, dupes, doc, "none")

\* C20: Parse selects its path from the input alone, and its result, the
\* error and the JWS, is the result of the selected form-specific parser
\* on the same input, the registry and the toggle read as Parse read them.
C20_ParseSelects ==
    ret.op = "Parse" =>
        LET r == ParseWith(SelectedParser(ret.doc), SeenRegs, SeenDupes, ret.doc)
        IN /\ ret.err = r.err
           /\ ret.got = r.j.live
           /\ r.j.live => j = r.j

\* The case of C20: Parse of a JSON document with a signatures member gave
\* the JWS of two blocks that ParseGeneral gives.
C20_Witness ==
    /\ ret.op = "Parse"
    /\ ret.err = NilStr
    /\ ret.got
    /\ SelectedParser(ret.doc) = "ParseGeneral"
    /\ Len(j.sb) = 2
    /\ j = ParseGeneral(SeenRegs, SeenDupes, ret.doc, "none").j


(***************************************************************************)
(* Properties of ParseCompact.                                             *)
(***************************************************************************)
\* A compact token is well formed: three segments, a header that decodes
\* and names a registered method, a payload that decodes, a signature that
\* decodes.
WellFormedCompact(doc) ==
    /\ SplitCount(doc) = 3
    /\ LET p == ProtectedUnmarshalJSON(doc.inline.Protected) IN
         /\ p.err = NilStr
         /\ assignMethod(SeenRegs[1], NilBlock, p.h).err = NilStr
    /\ PayloadUnmarshalJSON(doc.payload).err = NilStr
    /\ SignatureUnmarshalJSON(doc.inline.Signature).err = NilStr

NestedToken(doc) ==
    HeaderGet(ProtectedUnmarshalJSON(doc.inline.Protected).h, "cty") = "JWT"

\* C21: ParseCompact on a well-formed token whose protected header has cty
\* "JWT" returns the parsed JWS together with the nested-token error; on
\* every other well-formed token it returns the JWS and no error; on input
\* that does not split into three segments it returns the not-compact error
\* and no JWS.
C21_ParseCompactResults ==
    ret.op = "ParseCompact" =>
        /\ SplitCount(ret.doc) # 3 => (ret.err = "ErrNotCompact" /\ ~ret.got)
        /\ WellFormedCompact(ret.doc) =>
              /\ ret.got
              /\ j.live
              /\ Len(j.sb) = 1
              /\ j.sb[1].Signature = ret.doc.inline.Signature
              /\ ret.err = (IF NestedToken(ret.doc) THEN "ErrHoldsJWE" ELSE NilStr)

\* The case of C21: a nested token, returned with the error.
C21_Witness ==
    /\ ret.op = "ParseCompact"
    /\ WellFormedCompact(ret.doc)
    /\ NestedToken(ret.doc)
    /\ ret.err = "ErrHoldsJWE"
    /\ ret.got
    /\ j.live

(***************************************************************************)
(* Properties of the serializers on a JWS without signature blocks.        *)
(***************************************************************************)
Serializers == {"Compact", "Flat", "General"}

\* C22: no serializer succeeds on a JWS whose list of signature blocks is
\* empty: Compact, Flat and General each return an error and no output,
\* whatever the number of keys.
C22_NoSignatureNoOutput ==
    (ret.op \in Serializers /\ Len(j.sb) = 0) =>
        (ret.err # NilStr /\ ret.out = NoDoc)

(***************************************************************************)
(* Parsing with a caller's payload decoder (the json.Unmarshaler argument  *)
(* of the parse entry points).  A decoder either accepts the payload and   *)
(* yields its own value, or returns an error.                              *)
(***************************************************************************)
ParserNames == {"Parse", "ParseCompact", "ParseFlat", "ParseGeneral"}

\* A parse entry point given the decoder u, under the reads regs and dupes.
\* parseFlat and parseGeneral store the decoder in the payload (p.u = u[0])
\* before they decode the payload; ParseCompact builds its payload as
\* &payload{} and never reads u.
ParseWithDecoder(name, regs, dupes, doc, u) ==
    IF name = "ParseCompact" THEN ParseCompact(regs[1], doc)
    ELSE IF name = "ParseGeneral" THEN ParseGeneral(regs, dupes, doc, u)
    ELSE IF name = "ParseFlat" THEN ParseFlat(regs, dupes, doc, u)
    ELSE Parse(regs, dupes, doc, u)

\* The decoder specification: a JWS is made and serialized, and documents
\* are parsed with a decoder.
NextDecoder ==
    \/ Resume
    \/ \E ms \in NewMethodLists : DoNew("P1", ms)
    \/ \E k \in Keys : DoCompact(k, Nonces)
    \/ \E k \in Keys : DoFlat(k, Nonces)
    \/ \E ks \in SignKeyLists : DoGeneral(ks, Nonces)
    \/ /\ Idle
       /\ \E name \in ParserNames, d \in ParseInputs, u \in Decoders :
             DoParseDecoding(name, d, u)
    \/ DoParseCheck
    \/ DoParseAssign
    \/ \E m \in Methods : OtherRegisterLookup(m)
    \/ OtherRegisterWrite
    \/ \E m \in Methods : OtherRemoveSigningMethod(m)
    \/ \E b \in BOOLEAN : OtherSetIgnoreDupes(b)

SpecDecoder == Init /\ [][NextDecoder]_vars

\* C23: a decoder passed to a parse entry point is invoked on the payload
\* of the document the call parses, and when the decoder returns an error
\* the call has the result it has without a decoder.
C23_DecoderInvoked ==
    (ret.op \in ParserNames /\ ret.u # "none") =>
        /\ ret.got => ret.ucalled
        /\ ret.u = "fails" =>
              LET r == ParseWithDecoder(ret.op, SeenRegs, SeenDupes,
                                        ret.doc, "none")
              IN /\ ret.err = r.err
                 /\ ret.got = r.j.live
                 /\ ret.got => j = r.j

(***************************************************************************)
(* The caches of a JWS that ParseFlat or ParseGeneral returns.             *)
(***************************************************************************)
\* The signature entries of a JSON document, in block order.
WireEntries(doc) == IF doc.hasSigs THEN doc.sigs ELSE <<doc.inline>>

\* Block i of the JWS is marked clean and holds the header segments of
\* entry e.
HoldsWire(s, e) ==
    /\ s.clean
    /\ s.Protected = e.Protected
    /\ s.Unprotected = e.Unprotected

\* C24: after a successful ParseFlat or ParseGeneral the payload cache and
\* the header cache of every signature block of the returned JWS are
\* marked clean and hold the segments of the document.
C24_ParsedCachesClean ==
    (ret.op \in {"ParseFlat", "ParseGeneral"} /\ ret.got) =>
        /\ j.clean
        /\ j.plcache = ret.doc.payload
        /\ \A i \in 1..Len(j.sb) :
              /\ i <= Len(WireEntries(ret.doc))
              /\ HoldsWire(j.sb[i], WireEntries(ret.doc)[i])

(***************************************************************************)
(* Properties of the loop of VerifyMulti.                                  *)
(***************************************************************************)
\* VerifyMulti has run its loop: the arities pass and the call is not the
\* one-key, one-method, one-block call that Verify answers.
LoopRan ==
    /\ MultiRan
    /\ ~(Len(ret.keys) = 1 /\ Len(ret.methods) = 1 /\ Len(j.sb) = 1)

\* Block position x verifies with the key and the method the call pairs it
\* with.
BlockVerifies(x) ==
    sigHeadVerify(j.sb[x + 1], j.plcache,
                  SpreadKeys(ret.keys, Len(j.sb))[x + 1], ret.methods[x + 1]).err = NilStr

\* The verified positions satisfy the options o: enough of them, and every
\* listed one among them.
QuorumMet(o, ok) ==
    /\ Cardinality(ok) >= o.Number
    /\ (o.Indices.nil \/ Listed(o.Indices) \subseteq ok)

\* C25: in a VerifyMulti call that passes the arity checks a failure at one
\* block does not stop the evaluation: every block is checked exactly once,
\* those after a failed block too; and when the verified blocks do not
\* satisfy the options the call returns ErrNotEnoughValidSignatures, not
\* the collected errors.
C25_EveryBlockChecked ==
    LoopRan =>
        LET r == VerifyMulti(j, ret.keys, ret.methods, ret.onil, ret.o) IN
        /\ ret.ok = {x \in 0..(Len(j.sb) - 1) : BlockVerifies(x)}
        /\ Len(r.m) + Cardinality(ret.ok) = Len(j.sb)
        /\ (~ret.onil /\ ~QuorumMet(ret.o, ret.ok))
              => ret.err = "ErrNotEnoughValidSignatures"

(***************************************************************************)
(* Properties of a repeated VerifyMulti.                                   *)
(***************************************************************************)
\* C26: a VerifyMulti call repeated on the same JWS with the same keys,
\* methods and options returns what the call before it returned, and a
\* VerifyMulti call leaves the threshold and the index list of the caller's
\* options as they were.
C26_VerifyMultiRepeatable ==
    ret.op = "VerifyMulti" =>
        /\ ret.oafter.Number = ret.o.Number
        /\ ret.oafter.Indices = ret.o.Indices
        /\ ret.again => ret.err = ret.perr

(***************************************************************************)
(* Properties of ValidateMulti.                                            *)
(***************************************************************************)
\* The validated positions meet what idx requires of a JWS of n blocks: all
\* positions when idx is omitted, at least one for Any, the listed positions
\* otherwise.
IdxMet(idx, ok, n) ==
    IF Len(idx) = 0 THEN ok = 0..(n - 1)
    ELSE IF idx = <<AnyIdx>> THEN ok # {}
    ELSE {idx[x] : x \in 1..Len(idx)} \subseteq ok

\* C27: a ValidateMulti call that passes the arity checks returns nil only
\* if every signature idx requires validates with its key and method, and
\* returns ErrDidNotValidate otherwise.
C27_ValidateMultiRequires ==
    (/\ ret.op = "ValidateMulti"
     /\ Len(ret.methods) = Len(j.sb)
     /\ ~BadKeyArity(Len(ret.keys), Len(j.sb)))
    => /\ ret.ok = {x \in 0..(Len(j.sb) - 1) : BlockVerifies(x)}
       /\ ret.err \in {NilStr, "ErrDidNotValidate"}
       /\ ret.err = NilStr => IdxMet(ret.idx, ret.ok, Len(j.sb))

(***************************************************************************)
(* Malformed header segments.                                              *)
(***************************************************************************)
\* A header segment the header decoder rejects: bytes that do not decode,
\* or JSON that is no object.
Malformed(seg) == HeaderUnmarshalJSON(NilHeader, seg).err # NilStr

\* The parser that handles the document, and the signature entry whose
\* header segments it decodes first.
ReachesHeaders(name, doc) ==
    LET sel == IF name = "Parse" THEN SelectedParser(doc) ELSE name IN
    IF sel = "ParseCompact" THEN SplitCount(doc) = 3
    ELSE /\ JSONUnmarshals(doc)
         /\ PayloadUnmarshalJSON(doc.payload).err = NilStr
         /\ sel = "ParseGeneral" => (doc.hasSigs /\ Len(doc.sigs) >= 1)

FirstEntry(name, doc) ==
    LET sel == IF name = "Parse" THEN SelectedParser(doc) ELSE name IN
    IF sel = "ParseGeneral" THEN doc.sigs[1] ELSE doc.inline

\* C28: a protected or unprotected header segment that is malformed makes
\* the parse return the header decoder's error and no JWS.
C28_MalformedHeaderRejected ==
    (/\ ret.op \in ParserNames
     /\ ReachesHeaders(ret.op, ret.doc)
     /\ \/ Malformed(FirstEntry(ret.op, ret.doc).Protected)
        \/ Malformed(FirstEntry(ret.op, ret.doc).Unprotected))
    => /\ ~ret.got
       /\ ret.err = "decode"

(***************************************************************************)
(* Signing that fails.  The signing specification gives the serializers    *)
(* keys that a method's Sign may refuse.                                   *)
(***************************************************************************)
SignKeys == Keys \cup {InvalidKey}

NextSign ==
    \/ Resume
    \/ \E ms \in NewMethodLists : DoNew("P1", ms)
    \/ \E v \in Payloads : DoSetPayload(v)
    \/ \E k \in SignKeys : DoCompact(k, Nonces)
    \/ \E k \in SignKeys : DoFlat(k, Nonces)
    \/ \E ks \in SeqsUpTo(SignKeys, MaxEntries) : DoGeneral(ks, Nonces)

SpecSign == Init /\ [][NextSign]_vars

\* C29: when sign fails, with the key-arity error or with the error of a
\* block's signing method, every block holds the signature it held before
\* the call.
C29_FailedSignKeepsSignatures ==
    (ret.op \in Serializers /\ ret.err \in {"ErrNotEnoughKeys", "ErrInvalidKey"}) =>
        /\ Len(ret.psigs) = Len(j.sb)
        /\ \A i \in 1..Len(j.sb) : j.sb[i].Signature = ret.psigs[i]

(***************************************************************************)
(* The indexed header accessors.  The accessor specification calls them    *)
(* on a new JWS with no index, a negative one, and indexes inside and past *)
(* the block list.                                                         *)
(***************************************************************************)
AccessIndexArgs == {<<>>} \cup {<<x>> : x \in -1..MaxEntries}
Setters == {"SetProtected", "RemoveProtected", "SetUnprotected", "RemoveUnprotected"}
Getters == {"GetProtected", "GetUnprotected"}

NextAccess ==
    \/ Resume
    \/ \E ms \in NewMethodLists : DoNew("P1", ms)
    \/ \E a \in HeaderArgs, i \in AccessIndexArgs : DoSetProtected(a[1], a[2], i)
    \/ \E a \in HeaderArgs, i \in AccessIndexArgs : DoRemoveProtected(a[1], i)
    \/ \E a \in HeaderArgs, i \in AccessIndexArgs : DoSetUnprotected(a[1], a[2], i)
    \/ \E a \in HeaderArgs, i \in AccessIndexArgs : DoRemoveUnprotected(a[1], i)
    \/ \E a \in HeaderArgs, i \in AccessIndexArgs : DoGetProtected(a[1], i)
    \/ \E a \in HeaderArgs, i \in AccessIndexArgs : DoGetUnprotected(a[1], i)

SpecAccess == Init /\ [][NextAccess]_vars

\* The block position an accessor is to act on, on n blocks: the index when
\* it lies in the block list, 0 otherwise and when it is omitted.
TargetBlock(i, n) == IF Len(i) > 0 /\ i[1] >= 0 /\ i[1] < n THEN i[1] ELSE 0

\* The headers of block s after the accessor op has acted on it.
ActedOn(op, s, key, val) ==
    IF op = "SetProtected" THEN [s EXCEPT !.protected = HeaderSet(@, key, val)]
    ELSE IF op = "RemoveProtected" THEN [s EXCEPT !.protected = HeaderDel(@, key)]
    ELSE IF op = "SetUnprotected" THEN [s EXCEPT !.unprotected = HeaderSet(@, key, val)]
    ELSE IF op = "RemoveUnprotected" THEN [s EXCEPT !.unprotected = HeaderDel(@, key)]
    ELSE s

\* A step that is a call of an indexed accessor on a JWS with a block.
AccessorCall ==
    /\ ret.op = "none"
    /\ ret'.op \in Setters \cup Getters
    /\ Len(j.sb) >= 1

\* C30: an indexed header accessor called on a JWS of n >= 1 blocks with
\* any index never reaches outside the block list: it acts on block i when
\* 0 <= i < n and on block 0 otherwise, and leaves every other block as it
\* was.
C30_AccessorsInRange ==
    [][AccessorCall =>
         LET k == TargetBlock(ret'.i, Len(j.sb)) IN
         /\ ret'.err # "panic"
         /\ Len(j'.sb) = Len(j.sb)
         /\ \A x \in 1..Len(j.sb) :
               j'.sb[x] = IF x = k + 1
                          THEN ActedOn(ret'.op, j.sb[x], ret'.hkey, ret'.hval)
                          ELSE j.sb[x]
         /\ ret'.op = "GetProtected"
               => ret'.hval = HeaderGet(j.sb[k + 1].protected, ret'.hkey)
         /\ ret'.op = "GetUnprotected"
               => ret'.hval = HeaderGet(j.sb[k + 1].unprotected, ret'.hkey)]_vars

=============================================================================
